---------------------------- MODULE Spec2Model ----------------------------
(***************************************************************************)
(* Verification model of gfx-labs/ssz: the flexssz codec (Builder,         *)
(* Decoder, reflective Marshal / DecodeStruct), the incremental Merkle     *)
(* tree of package merkle_tree, and the size-classed buffer pool of        *)
(* package bufpool.                                                        *)
(*                                                                         *)
(* The module holds several specifications over one set of variables; a    *)
(* specification leaves the variables of the other components unchanged.   *)
(*  SpecPool       the buffer pool (Get / Put / caller writes)             *)
(*  SpecPoolConc   Get and Put of concurrent callers, step by step         *)
(*  SpecTree       one Merkle tree used by one caller                      *)
(*  SpecTreeMarks  MarkLeafAsDirty and ComputeRoot of concurrent callers   *)
(*  SpecTreeConc   every operation of the tree under concurrent callers    *)
(*  SpecBuilder    the Builder: Write, EncodeBytes, ExitDynamic, Finish    *)
(*  SpecCodec      Marshal and DecodeStruct on values and on byte strings  *)
(*  SpecBitList    EncodeBitList and DecodeBitList on bit-lists            *)
(*  SpecCache      concurrent GetTypeInfo calls on the type-info cache     *)
(***************************************************************************)
EXTENDS Integers, Sequences, FiniteSets, TLC

VARIABLES
    \* ---- bufpool.BufferPool ----
    bufs,       \* buffer id -> [cap, len, data, dirtied]: every *Buf ever made
    pooled,     \* buffer id -> how many times the pointer sits in its sync.Pool
    held,       \* caller -> set of buffer ids the caller holds and may use
    nextBuf,    \* next fresh buffer id
    lastGet,    \* what the most recent Get returned (or NoGet)
    flight,     \* caller -> the buffer a Get or Put it is inside of works on
    \* ---- merkle_tree.MerkleTree (one tree, sequential use) ----
    tree,       \* the MerkleTree object: its fields, and whether it panicked
    leaves,     \* the caller's leaf data, what computeLeaf(idx, out) writes
    treeOut,    \* what the most recent ComputeRoot returned (or NoRoot)
    treeHist,   \* whether ComputeRoot has run, and whether a mark preceded the first run
    \* ---- the tree under concurrent callers ----
    mu,         \* m.mu of the shared tree: [w: writer or NoThread, r: readers]
    peerMu,     \* the mu of the peer tree of CopyInto
    peer,       \* the peer tree of CopyInto
    thr,        \* goroutine -> [pc, idx, fn]: where it is inside which call
    leafFn,     \* m.computeLeaf: which leaf function the tree holds
    peerFn,     \* computeLeaf of the peer tree (0: nil)
    \* ---- flexssz.Builder ----
    builder,    \* the open builders, the root first: d.parent is the one before d
    written,    \* what root.Finish() wrote, once it has run
    \* ---- flexssz.Marshal / DecodeStruct ----
    input,      \* what the caller starts from: a value, or bytes on the wire
    codec,      \* the latest result: [phase, val, bytes, err]
    \* ---- the type-info cache of flexssz ----
    typeInfoCache,       \* reflect.Type -> the *TypeInfo cached (or NoNode)
    typeInfoCacheMutex,  \* the sync.RWMutex: [w: writer or NoThread, r: readers]
    lookup      \* goroutine -> where it is inside which GetTypeInfo call

poolVars == <<bufs, pooled, held, nextBuf, lastGet, flight>>
treeVars == <<tree, leaves, treeOut, treeHist>>

concVars == <<mu, peerMu, peer, thr, leafFn, peerFn>>
builderVars == <<builder, written>>
codecVars == <<input, codec>>
cacheVars == <<typeInfoCache, typeInfoCacheMutex, lookup>>

vars == <<poolVars, treeVars, concVars, builderVars, codecVars, cacheVars>>

\* what the actions of one component leave unchanged (a Get or a Put that
\* runs in one step leaves no call in flight)
nonPoolVars == <<treeVars, concVars, builderVars, codecVars, cacheVars, flight>>
nonPoolStepVars == <<treeVars, concVars, builderVars, codecVars, cacheVars>>
nonTreeVars == <<poolVars, builderVars, codecVars, cacheVars>>
nonBuilderVars == <<poolVars, treeVars, concVars, codecVars, cacheVars>>
nonCodecVars == <<poolVars, treeVars, concVars, builderVars, cacheVars>>
nonCacheVars == <<poolVars, treeVars, concVars, builderVars, codecVars>>

(***************************************************************************)
(* Generic helpers                                                         *)
(***************************************************************************)
Min(a, b) == IF a <= b THEN a ELSE b
Max(a, b) == IF a >= b THEN a ELSE b

\* 1 << k
Shl1(k) == 2 ^ k

\* math/bits.Len: number of bits needed to represent x (0 for x = 0)
RECURSIVE BitsLen(_)
BitsLen(x) == IF x = 0 THEN 0 ELSE 1 + BitsLen(x \div 2)

\* math/bits.TrailingZeros for x > 0
RECURSIVE TrailingZeros(_)
TrailingZeros(x) == IF x % 2 = 1 THEN 0 ELSE 1 + TrailingZeros(x \div 2)

\* bitwise a & b on naturals
RECURSIVE BitAnd(_, _)
BitAnd(a, b) ==
    IF a = 0 \/ b = 0 THEN 0
    ELSE (a % 2) * (b % 2) + 2 * BitAnd(a \div 2, b \div 2)

Zeros(n) == [i \in 1..n |-> 0]

(***************************************************************************)
(* bufpool: size-classed pool of byte buffers                              *)
(***************************************************************************)
\* bounds of the pool model
MaxGetSize == 4     \* Get sizes are drawn from -1..MaxGetSize
MaxBufs == 2        \* buffers allocated in one behaviour
NumCallers == 2     \* callers using the pool

\* len(p.pools): the pool has 32 size classes
NumPools == 32

Callers == 1..NumCallers
BufIds == 1..MaxBufs
NoGet == [kind |-> "none"]
\* a caller that is inside no call of the pool
NoFlight == [pc |-> "idle", id |-> 0, size |-> 0, reused |-> FALSE]

\* nextPowerOf2Index returns the index such that 1 << index >= n
nextPowerOf2Index(n) == IF n <= 1 THEN 0 ELSE BitsLen(n - 1)

\* powerOf2Index returns the index if n is exactly a power of 2, otherwise -1
powerOf2Index(n) ==
    IF n <= 0 \/ BitAnd(n, n - 1) # 0 THEN -1 ELSE TrailingZeros(n)

\* Get(0): make([]byte, 0)
GetZeroSize == [cap |-> 0, len |-> 0]
\* Get of a size beyond the last size class: make([]byte, size)
GetUnpooled(size) == [cap |-> size, len |-> size]

\* (mutant) the pooled slice handed out without being resliced
GetResliceKeepLen(b, size) == b
\* slice.B = slice.B[:size] on the buffer sync.Pool.Get returned.  Every
\* pool has a New function, so sync.Pool.Get never returns nil and the
\* trailing "create a new one" lines of Get are not reachable.
GetReslice(b, size) == [b EXCEPT !.len = size]

\* sync.Pool.New of size class `index`: make([]byte, 1 << index)
PoolNew(index) ==
    [cap |-> Shl1(index), len |-> Shl1(index), data |-> Zeros(Shl1(index)),
     dirtied |-> FALSE]

\* (mutant) Put that resets the length and forgets to clear the bytes
PutNoClear(b) == [b EXCEPT !.len = b.cap]
\* the buffer as Put leaves it in the pool: length reset, every byte cleared
PutClear(b) == [b EXCEPT !.len = b.cap, !.data = Zeros(b.cap)]

\* whether Put accepts a buffer of this capacity into a pool
PutAccepts(capacity) ==
    LET index == powerOf2Index(capacity) IN
    /\ capacity # 0
    /\ ~(index < 0 \/ index >= NumPools)
    /\ capacity = Shl1(index)

PoolInit ==
    /\ bufs = [i \in BufIds |-> [cap |-> 0, len |-> 0, data |-> <<>>, dirtied |-> FALSE]]
    /\ pooled = [i \in BufIds |-> 0]
    /\ held = [c \in Callers |-> {}]
    /\ nextBuf = 1
    /\ lastGet = NoGet
    /\ flight = [c \in Callers |-> NoFlight]

\* the pool before any use, for the specifications of the other components
PoolIdle == PoolInit

\* Get(size) with size < 0: returns nil
PoolGetNegative(c) ==
    /\ lastGet' = [kind |-> "nil", size |-> -1, caller |-> c]
    /\ UNCHANGED <<bufs, pooled, held, nextBuf>>
    /\ UNCHANGED nonPoolVars

\* Get(size) that allocates: size = 0, an unpooled size, or sync.Pool.Get
\* falling back to New (the pool is empty, or sync.Pool ignores its content)
PoolGetAlloc(c, size) ==
    /\ size >= 0
    /\ nextBuf <= MaxBufs
    /\ LET index == nextPowerOf2Index(size)
           raw(s) == [cap |-> s.cap, len |-> s.len, data |-> Zeros(s.cap),
                      dirtied |-> FALSE]
           b == IF size = 0 THEN raw(GetZeroSize)
                ELSE IF index >= NumPools THEN raw(GetUnpooled(size))
                ELSE GetReslice(PoolNew(index), size)
       IN /\ bufs' = [bufs EXCEPT ![nextBuf] = b]
          /\ lastGet' = [kind |-> "buf", size |-> size, caller |-> c, id |-> nextBuf,
                         reused |-> FALSE, len |-> b.len, cap |-> b.cap, data |-> b.data,
                         wasDirtied |-> FALSE]
    /\ held' = [held EXCEPT ![c] = @ \cup {nextBuf}]
    /\ nextBuf' = nextBuf + 1
    /\ UNCHANGED pooled
    /\ UNCHANGED nonPoolVars

\* Get(size) served from the size class's sync.Pool
PoolGetReuse(c, size) ==
    /\ size > 0
    /\ LET index == nextPowerOf2Index(size) IN
       /\ index < NumPools
       /\ \E id \in BufIds :
            /\ pooled[id] > 0
            /\ bufs[id].cap = Shl1(index)
            /\ LET b == GetReslice(bufs[id], size) IN
               /\ bufs' = [bufs EXCEPT ![id] = b]
               /\ lastGet' = [kind |-> "buf", size |-> size, caller |-> c, id |-> id,
                              reused |-> TRUE, len |-> b.len, cap |-> b.cap,
                              data |-> b.data, wasDirtied |-> b.dirtied]
            /\ pooled' = [pooled EXCEPT ![id] = @ - 1]
            /\ held' = [held EXCEPT ![c] = @ \cup {id}]
    /\ UNCHANGED nextBuf
    /\ UNCHANGED nonPoolVars

\* a caller makes a buffer of its own (any capacity, any content) to Put later
PoolForeign(c, capacity, fill) ==
    /\ nextBuf <= MaxBufs
    /\ bufs' = [bufs EXCEPT ![nextBuf] =
                  [cap |-> capacity, len |-> capacity,
                   data |-> [i \in 1..capacity |-> fill], dirtied |-> fill # 0]]
    /\ held' = [held EXCEPT ![c] = @ \cup {nextBuf}]
    /\ nextBuf' = nextBuf + 1
    /\ lastGet' = NoGet
    /\ UNCHANGED pooled
    /\ UNCHANGED nonPoolVars

\* a caller writes a byte of a buffer it holds
PoolWrite(c, id, i) ==
    /\ id \in held[c]
    /\ i \in 1..bufs[id].len
    /\ bufs[id].data[i] = 0
    /\ bufs' = [bufs EXCEPT ![id].data[i] = 1, ![id].dirtied = TRUE]
    /\ lastGet' = NoGet
    /\ UNCHANGED <<pooled, held, nextBuf>>
    /\ UNCHANGED nonPoolVars

\* Put(buf): the caller gives the buffer up; Put pools it when the capacity
\* is an exact power of two, cleared and reset to full length
PoolPut(c, id) ==
    /\ id \in held[c]
    /\ held' = [held EXCEPT ![c] = @ \ {id}]
    /\ IF PutAccepts(bufs[id].cap)
       THEN /\ bufs' = [bufs EXCEPT ![id] = PutClear(bufs[id])]
            /\ pooled' = [pooled EXCEPT ![id] = @ + 1]
       ELSE UNCHANGED <<bufs, pooled>>
    /\ lastGet' = NoGet
    /\ UNCHANGED nextBuf
    /\ UNCHANGED nonPoolVars

PoolNext ==
    \/ \E c \in Callers : PoolGetNegative(c)
    \/ \E c \in Callers, size \in 0..MaxGetSize : PoolGetAlloc(c, size)
    \/ \E c \in Callers, size \in 0..MaxGetSize : PoolGetReuse(c, size)
    \/ \E c \in Callers, capacity \in 1..MaxGetSize, fill \in {0, 1} :
          PoolForeign(c, capacity, fill)
    \/ \E c \in Callers, id \in BufIds, i \in 1..MaxGetSize : PoolWrite(c, id, i)
    \/ \E c \in Callers, id \in BufIds : PoolPut(c, id)

(***************************************************************************)
(* bufpool under concurrent callers: Get and Put step by step.  The only   *)
(* shared object is the sync.Pool of a size class, whose Get and Put are   *)
(* atomic; everything else a call touches is the buffer it was handed.     *)
(***************************************************************************)
\* (mutant) a sync.Pool.Get that hands an item out and keeps it pooled
SyncPoolGetKeep(p, id) == p
\* sync.Pool.Get: the item leaves the pool
SyncPoolGet(p, id) == [p EXCEPT ![id] = @ - 1]
\* sync.Pool.Put: the item is in the pool
SyncPoolPut(p, id) == [p EXCEPT ![id] = @ + 1]

\* the buffers a caller can touch: the ones Get returned to it and it has
\* not Put, and the one the Get or Put it is inside of works on
Touches(c) ==
    held[c] \cup (IF flight[c].pc = "idle" THEN {} ELSE {flight[c].id})

\* Get(size), up to p.pools[index].Get() handing out a pooled buffer
PoolConcGetTake(c, size) ==
    /\ flight[c].pc = "idle"
    /\ size > 0
    /\ nextPowerOf2Index(size) < NumPools
    /\ \E id \in BufIds :
          /\ pooled[id] > 0
          /\ bufs[id].cap = Shl1(nextPowerOf2Index(size))
          /\ pooled' = SyncPoolGet(pooled, id)
          /\ flight' = [flight EXCEPT ![c] =
                [pc |-> "got", id |-> id, size |-> size, reused |-> TRUE]]
    /\ lastGet' = NoGet
    /\ UNCHANGED <<bufs, held, nextBuf>>
    /\ UNCHANGED nonPoolStepVars

\* Get(size), up to p.pools[index].Get() falling back to New
PoolConcGetNew(c, size) ==
    /\ flight[c].pc = "idle"
    /\ size > 0
    /\ nextPowerOf2Index(size) < NumPools
    /\ nextBuf <= MaxBufs
    /\ bufs' = [bufs EXCEPT ![nextBuf] = PoolNew(nextPowerOf2Index(size))]
    /\ flight' = [flight EXCEPT ![c] =
          [pc |-> "got", id |-> nextBuf, size |-> size, reused |-> FALSE]]
    /\ nextBuf' = nextBuf + 1
    /\ lastGet' = NoGet
    /\ UNCHANGED <<pooled, held>>
    /\ UNCHANGED nonPoolStepVars

\* Get(size), the rest: slice.B = slice.B[:size]; return slice
PoolConcGetReturn(c) ==
    /\ flight[c].pc = "got"
    /\ LET id == flight[c].id
           b == GetReslice(bufs[id], flight[c].size)
       IN /\ bufs' = [bufs EXCEPT ![id] = b]
          /\ held' = [held EXCEPT ![c] = @ \cup {id}]
          /\ lastGet' = [kind |-> "buf", size |-> flight[c].size, caller |-> c,
                         id |-> id, reused |-> flight[c].reused,
                         len |-> b.len, cap |-> b.cap, data |-> b.data,
                         wasDirtied |-> b.dirtied]
    /\ flight' = [flight EXCEPT ![c] = NoFlight]
    /\ UNCHANGED <<pooled, nextBuf>>
    /\ UNCHANGED nonPoolStepVars

\* a caller writes a byte of a buffer Get returned to it
PoolConcWrite(c, id, i) ==
    /\ flight[c].pc = "idle"
    /\ id \in held[c]
    /\ i \in 1..bufs[id].len
    /\ bufs[id].data[i] = 0
    /\ bufs' = [bufs EXCEPT ![id].data[i] = 1, ![id].dirtied = TRUE]
    /\ lastGet' = NoGet
    /\ UNCHANGED <<pooled, held, nextBuf, flight>>
    /\ UNCHANGED nonPoolStepVars

\* Put(buf), up to the loop clearing the buffer: the caller has given the
\* buffer up, once, and Put works on it
PoolConcPutClear(c, id) ==
    /\ flight[c].pc = "idle"
    /\ id \in held[c]
    /\ held' = [held EXCEPT ![c] = @ \ {id}]
    /\ IF PutAccepts(bufs[id].cap)
       THEN /\ bufs' = [bufs EXCEPT ![id] = PutClear(bufs[id])]
            /\ flight' = [flight EXCEPT ![c] =
                  [pc |-> "cleared", id |-> id, size |-> 0, reused |-> FALSE]]
       ELSE UNCHANGED <<bufs, flight>>
    /\ lastGet' = NoGet
    /\ UNCHANGED <<pooled, nextBuf>>
    /\ UNCHANGED nonPoolStepVars

\* Put(buf), the rest: p.pools[index].Put(buf)
PoolConcPutPublish(c) ==
    /\ flight[c].pc = "cleared"
    /\ pooled' = SyncPoolPut(pooled, flight[c].id)
    /\ flight' = [flight EXCEPT ![c] = NoFlight]
    /\ lastGet' = NoGet
    /\ UNCHANGED <<bufs, held, nextBuf>>
    /\ UNCHANGED nonPoolStepVars

PoolConcNext ==
    \/ \E c \in Callers, size \in 1..MaxGetSize : PoolConcGetTake(c, size)
    \/ \E c \in Callers, size \in 1..MaxGetSize : PoolConcGetNew(c, size)
    \/ \E c \in Callers : PoolConcGetReturn(c)
    \/ \E c \in Callers, id \in BufIds, i \in 1..MaxGetSize :
          PoolConcWrite(c, id, i)
    \/ \E c \in Callers, id \in BufIds : PoolConcPutClear(c, id)
    \/ \E c \in Callers : PoolConcPutPublish(c)

(***************************************************************************)
(* merkle_tree: hashing, ComputeMerkleRootRange, the incremental tree      *)
(***************************************************************************)
\* 32-byte chunks as terms.  A leaf chunk is <<v>> (v = 0 is the all-zero
\* chunk), the hash of 64 bytes a ++ b is the pair <<a, b>>: two hashes are
\* equal exactly when their inputs are, as for a collision-free SHA-256.
\* Chunks that a partial copy leaves behind keep the byte count:
\*   <<c, v, "zeroed">>      v with its first c bytes cleared
\*   <<k, v, "prefix", 0>>   the first k bytes of v, then zeros
\*   <<c, x, y, "mix", 0>>   the first c bytes of x, then y from byte c on
ChunkSize == 32
Zero == <<0>>
Leaf(v) == <<v>>
\* gohashtree.HashByteSlice on one 64-byte block
Hash(a, b) == <<a, b>>

\* ZeroHashes[i]: the root of an all-zero subtree of depth i
RECURSIVE ZeroHashes(_)
ZeroHashes(i) ==
    IF i = 0 THEN Zero ELSE Hash(ZeroHashes(i - 1), ZeroHashes(i - 1))

\* copy(dst, ZeroHashes[0][:c]) onto chunk v
ZeroedPrefix(c, v) ==
    IF c = 0 THEN v
    ELSE IF c >= ChunkSize \/ v = Zero THEN Zero
    ELSE IF Len(v) = 3 THEN <<Max(c, v[1]), v[2], "zeroed">>
    ELSE <<c, v, "zeroed">>

\* copy(dst, v[:k]) onto a zeroed chunk dst
Prefix(k, v) ==
    IF k = 0 \/ v = Zero THEN Zero
    ELSE IF k >= ChunkSize THEN v
    ELSE IF Len(v) = 3 /\ v[1] >= k THEN Zero
    ELSE <<k, v, "prefix", 0>>

\* copy(dst, x[:c]) onto a chunk dst holding y
Mix(c, x, y) ==
    IF c = 0 THEN y
    ELSE IF c >= ChunkSize \/ x = y THEN x
    ELSE IF y = Zero THEN Prefix(c, x)
    ELSE <<c, x, y, "mix", 0>>

\* GetDepth(v): the number of halvings that bring v down to 1
GetDepth(v) == IF v <= 1 THEN 0 ELSE BitsLen(v) - 1

NextPowerOfTwo(n) == IF n = 0 THEN 1 ELSE Shl1(BitsLen(n - 1))

\* the loop of ComputeMerkleRootRange over a layer of whole chunks
RECURSIVE RangeLoop(_, _, _)
RangeLoop(layer, i, depth) ==
    IF i >= depth THEN layer
    ELSE LET padded == IF Len(layer) % 2 # 0
                       THEN Append(layer, ZeroHashes(i)) ELSE layer
             out == [j \in 1..(Len(padded) \div 2) |->
                        Hash(padded[2 * j - 1], padded[2 * j])]
         IN RangeLoop(out, i + 1, depth)

\* a []byte argument: its length in bytes and the chunks of its backing array
Bytes(length, chunks) == [len |-> length, chunks |-> chunks]
WholeChunks(data) == SubSeq(data.chunks, 1, data.len \div ChunkSize)

\* a ComputeMerkleRootRange that stops at the depth of the data it was given
\* instead of the depth of the leaf limit
ComputeMerkleRootRangeToDataDepth(data, leafLimit, startLevel) ==
    IF data.len % ChunkSize # 0 THEN [err |-> TRUE, out |-> Zero]
    ELSE LET layer == RangeLoop(WholeChunks(data), startLevel,
                                GetDepth(NextPowerOfTwo(data.len \div ChunkSize)))
         IN [err |-> FALSE, out |-> IF Len(layer) = 0 THEN Zero ELSE layer[1]]

\* ComputeMerkleRootRange(data, output, leafLimit, startLevel)
ComputeMerkleRootRange(data, leafLimit, startLevel) ==
    IF data.len % ChunkSize # 0 THEN [err |-> TRUE, out |-> Zero]
    ELSE LET layer == RangeLoop(WholeChunks(data), startLevel, GetDepth(leafLimit))
         IN [err |-> FALSE, out |-> IF Len(layer) = 0 THEN Zero ELSE layer[1]]

\* ComputeMerkleRootFromLevel(data, output, dataLength, startLevel)
ComputeMerkleRootFromLevel(data, dataLength, startLevel) ==
    IF data.len <= ChunkSize
    THEN [err |-> FALSE,
          out |-> IF data.len = 0 THEN Zero ELSE Prefix(data.len, data.chunks[1])]
    ELSE ComputeMerkleRootRange(data,
             NextPowerOfTwo((dataLength + 31) \div ChunkSize), startLevel)

\* ComputeMerkleRoot(data, output)
ComputeMerkleRoot(data) ==
    IF data.len <= ChunkSize
    THEN [err |-> FALSE,
          out |-> IF data.len = 0 THEN Zero ELSE Prefix(data.len, data.chunks[1])]
    ELSE ComputeMerkleRootRange(data,
             NextPowerOfTwo((data.len + 31) \div ChunkSize), 0)

\* ---- MerkleTree ----
NoLimit == -1       \* limit == nil
NilLayer == [nil |-> TRUE, len |-> 0, cap |-> 0, data |-> <<>>]
\* make([]byte, length, capacity), length <= capacity; the last chunk of
\* data is partial when the capacity is not a multiple of 32
MakeLayer(length, capacity) ==
    [nil |-> FALSE, len |-> length, cap |-> capacity,
     data |-> [j \in 1..((capacity + 31) \div ChunkSize) |-> Zero]]

Panic(t) == [t EXCEPT !.status = "panic"]
\* m.hashBuf is not part of the tree record: every hash the modelled runs
\* take fills both halves of it first.  A run that would hash bytes left in
\* m.hashBuf by an earlier hash (a child slice shorter than a chunk) stops
\* with this status instead.
StaleHashBuf(t) == [t EXCEPT !.status = "staleHashBuf"]

\* a MerkleTree{} before Initialize
ZeroTree ==
    [status |-> "ok", layers |-> <<>>, hidden |-> <<>>, leavesCount |-> 0,
     limit |-> NoLimit, dirtyLeaves |-> <<>>]

Initialize(leavesCount, maxTreeCacheDepth, limitOptional) ==
    LET firstLayerSize == ((leavesCount + 1) \div 2) * ChunkSize
        capacity == (firstLayerSize \div 2) * 3
    IN [status |-> "ok",
        layers |-> [i \in 1..maxTreeCacheDepth |->
                       IF i = 1 THEN MakeLayer(firstLayerSize, capacity)
                       ELSE NilLayer],
        hidden |-> <<>>,
        leavesCount |-> leavesCount,
        limit |-> limitOptional,
        dirtyLeaves |-> [i \in 1..leavesCount |-> FALSE]]

\* copy(layer[low:], ZeroHashes[0][:]) for low <= len(layer)
CopyZeroAt(l, low) ==
    LET c == Min(l.len - low, ChunkSize)
        j == low \div ChunkSize + 1
    IN IF c = 0 THEN l
       ELSE [l EXCEPT !.data[j] = ZeroedPrefix(c, @)]

\* markLeafAsDirty(idx), from layer i on (layers are 0-based in the code)
RECURSIVE markLeafAsDirtyFrom(_, _, _)
markLeafAsDirtyFrom(t, idx, i) ==
    IF i >= Len(t.layers) THEN t
    ELSE LET currDivisor == Shl1(i + 1)
             layerSize == (t.leavesCount + (currDivisor - 1)) \div currDivisor
             capacity == IF (layerSize \div 2) * 3 = 0 THEN 1024
                         ELSE (layerSize \div 2) * 3
             l == IF t.layers[i + 1].nil THEN MakeLayer(layerSize, capacity)
                  ELSE t.layers[i + 1]
             low == (idx \div currDivisor) * ChunkSize
             t1 == [t EXCEPT !.layers[i + 1] = l]
         IN IF layerSize = 0 THEN t
            ELSE IF low > l.len THEN Panic(t1)
            ELSE LET t2 == [t1 EXCEPT !.layers[i + 1] = CopyZeroAt(l, low)]
                 IN IF layerSize = 1 THEN t2
                    ELSE markLeafAsDirtyFrom(t2, idx, i + 1)

markLeafAsDirty(t, idx) == markLeafAsDirtyFrom(t, idx, 0)

\* the loop of computeLayer(layerIdx) from iteration i on; lv is the leaf
\* data computeLeaf reads
RECURSIVE computeLayerLoop(_, _, _, _)
computeLayerLoop(t, layerIdx, i, lv) ==
    LET currentDivisor == Shl1(layerIdx + 1)
        iterations == (t.leavesCount + (currentDivisor - 1)) \div currentDivisor
        l == t.layers[layerIdx + 1]
        toOffset == (i + 1) * ChunkSize
    IN IF i >= iterations THEN t
       ELSE IF toOffset > l.cap THEN Panic(t)
       ELSE IF l.data[i + 1] # Zero THEN computeLayerLoop(t, layerIdx, i + 1, lv)
       ELSE IF layerIdx = 0
       THEN LET leafIndexBegin == i * 2
                a == lv[leafIndexBegin + 1]
                b == IF leafIndexBegin = t.leavesCount - 1 THEN Zero
                     ELSE lv[leafIndexBegin + 2]
                t1 == [t EXCEPT !.layers[1].data[i + 1] = Hash(a, b)]
            IN computeLayerLoop(t1, layerIdx, i + 1, lv)
       ELSE LET prev == t.layers[layerIdx]
                childFromOffset == (i * 2) * ChunkSize
                childToOffset == (i * 2 + 2) * ChunkSize
                a == prev.data[i * 2 + 1]
                b == IF childToOffset > prev.len THEN ZeroHashes(layerIdx)
                     ELSE prev.data[i * 2 + 2]
                t1 == [t EXCEPT !.layers[layerIdx + 1].data[i + 1] = Hash(a, b)]
            IN IF childToOffset > prev.len /\ childFromOffset > prev.len
               THEN Panic(t)
               ELSE IF childToOffset > prev.len
                       /\ prev.len - childFromOffset < ChunkSize
               THEN StaleHashBuf(t)
               ELSE computeLayerLoop(t1, layerIdx, i + 1, lv)

\* computeLayer(layerIdx): allocate the layer when it is nil, then rehash
\* every node whose chunk is the zero chunk
computeLayer(t, layerIdx, lv) ==
    LET l == t.layers[layerIdx + 1]
        prevLayerNodeCount == t.layers[layerIdx].len \div ChunkSize
        newExpectendLayerNodeCount ==
            prevLayerNodeCount \div 2 + (IF prevLayerNodeCount % 2 # 0 THEN 1 ELSE 0)
        newLayerSize == newExpectendLayerNodeCount * ChunkSize
        capacity == (newLayerSize \div 2) * 3
    IN IF l.nil
       THEN IF layerIdx = 0 THEN Panic(t)
            ELSE IF prevLayerNodeCount \div 2 = 0 THEN t
            ELSE computeLayerLoop(
                     [t EXCEPT !.layers[layerIdx + 1] = MakeLayer(newLayerSize, capacity)],
                     layerIdx, 0, lv)
       ELSE IF l.len = 0 THEN t
       ELSE computeLayerLoop(t, layerIdx, 0, lv)

\* for i := 0; i < len(m.layers); i++ { m.computeLayer(i) }
RECURSIVE computeLayersFrom(_, _, _)
computeLayersFrom(t, i, lv) ==
    IF i >= Len(t.layers) \/ t.status # "ok" THEN t
    ELSE computeLayersFrom(computeLayer(t, i, lv), i + 1, lv)

\* a dirty-flag loop that resets every leaf, its flag set or not
RECURSIVE processDirtyAll(_, _)
processDirtyAll(t, idx) ==
    IF idx >= Len(t.dirtyLeaves) \/ t.status = "panic" THEN t
    ELSE LET t1 == markLeafAsDirty(t, idx)
         IN IF t1.status = "panic" THEN t1
            ELSE processDirtyAll([t1 EXCEPT !.dirtyLeaves[idx + 1] = FALSE], idx + 1)

\* the dirty-flag loop at the head of ComputeRoot, from leaf idx on
RECURSIVE processDirtyFrom(_, _)
processDirtyFrom(t, idx) ==
    IF idx >= Len(t.dirtyLeaves) \/ t.status = "panic" THEN t
    ELSE IF t.dirtyLeaves[idx + 1]
    THEN LET t1 == markLeafAsDirty(t, idx)
         IN IF t1.status = "panic" THEN t1
            ELSE processDirtyFrom([t1 EXCEPT !.dirtyLeaves[idx + 1] = FALSE], idx + 1)
    ELSE processDirtyFrom(t, idx + 1)

NoRoot == [kind |-> "none"]
RootOf(r) == IF r.err THEN [kind |-> "panic"] ELSE [kind |-> "root", root |-> r.out]
LayerBytes(l) == Bytes(l.len, l.data)

\* index of the last layer before the first empty one (-1 when layer 0 is empty)
LastLayerIdx(t) ==
    LET empty == {i \in 0..(Len(t.layers) - 1) : t.layers[i + 1].len = 0}
    IN IF empty = {} THEN Len(t.layers) - 1
       ELSE (CHOOSE i \in empty : \A k \in empty : i <= k) - 1

\* finishHashing(lastLayerIdx, root)
finishHashing(t, lastLayerIdx) ==
    IF t.limit = NoLimit
    THEN ComputeMerkleRootFromLevel(LayerBytes(t.layers[lastLayerIdx + 1]),
                                    t.leavesCount * ChunkSize, lastLayerIdx + 1)
    ELSE ComputeMerkleRootRange(LayerBytes(t.layers[lastLayerIdx + 1]),
                                t.limit, lastLayerIdx + 1)

\* ComputeRoot(): the tree it leaves behind and what it returns
ComputeRoot(t, lv) ==
    LET t1 == processDirtyFrom(t, 0)
        n == t.leavesCount
        buf == Bytes(n * ChunkSize, SubSeq(lv, 1, n))
        t2 == computeLayersFrom(t1, 0, lv)
    IN IF Len(t.layers) = 0 THEN [t |-> t, out |-> [kind |-> "root", root |-> Zero]]
       ELSE IF t1.status = "panic" THEN [t |-> t1, out |-> [kind |-> "panic"]]
       ELSE IF n = 0
       THEN [t |-> t1,
             out |-> [kind |-> "root",
                      root |-> IF t.limit = NoLimit THEN Zero
                               ELSE ZeroHashes(GetDepth(t.limit))]]
       ELSE IF n <= 3
       THEN LET r == IF t.limit # NoLimit
                     THEN ComputeMerkleRootRange(buf, t.limit, 0)
                     ELSE ComputeMerkleRootFromLevel(buf, n * ChunkSize, 0)
            IN [t |-> IF r.err THEN Panic(t1) ELSE t1, out |-> RootOf(r)]
       ELSE IF t1.layers[1].len = ChunkSize
       THEN LET r == IF t.limit # NoLimit
                     THEN ComputeMerkleRootRange(Bytes(ChunkSize, <<lv[1]>>), t.limit, 0)
                     ELSE [err |-> FALSE, out |-> lv[1]]
            IN [t |-> IF r.err THEN Panic(t1) ELSE t1, out |-> RootOf(r)]
       ELSE IF t2.status # "ok" THEN [t |-> t2, out |-> [kind |-> t2.status]]
       ELSE IF LastLayerIdx(t2) < 0 THEN [t |-> Panic(t2), out |-> [kind |-> "panic"]]
       ELSE LET r == finishHashing(t2, LastLayerIdx(t2))
            IN [t |-> IF r.err THEN Panic(t2) ELSE t2, out |-> RootOf(r)]

\* an extendLayer that leaves the last node of a layer it keeps as it is
extendLayerKeepingLast(t, layerIdx) ==
    LET l == t.layers[layerIdx + 1]
        prevLayerNodeCount == IF layerIdx = 0 THEN t.leavesCount + 1
                              ELSE t.layers[layerIdx].len \div ChunkSize
        newExpectendLayerNodeCount ==
            prevLayerNodeCount \div 2 + (IF prevLayerNodeCount % 2 # 0 THEN 1 ELSE 0)
        newLayerSize == newExpectendLayerNodeCount * ChunkSize
        capacity == (newLayerSize \div 2) * 3
        fresh == MakeLayer(newLayerSize, capacity)
        grown == [fresh EXCEPT !.data =
                    [j \in 1..Len(fresh.data) |->
                        IF j * ChunkSize <= l.len THEN l.data[j]
                        ELSE IF (j - 1) * ChunkSize < l.len
                        THEN Prefix(l.len - (j - 1) * ChunkSize, l.data[j])
                        ELSE Zero]]
        kept == IF newLayerSize > l.cap THEN grown ELSE [l EXCEPT !.len = newLayerSize]
    IN IF prevLayerNodeCount \div 2 = 0
       THEN [t EXCEPT !.layers[layerIdx + 1].len = 0]
       ELSE IF l.nil THEN [t EXCEPT !.layers[layerIdx + 1] = fresh]
       ELSE [t EXCEPT !.layers[layerIdx + 1] = kept]

\* extendLayer(layerIdx), called by AppendLeaf before leavesCount grows
extendLayer(t, layerIdx) ==
    LET l == t.layers[layerIdx + 1]
        prevLayerNodeCount == IF layerIdx = 0 THEN t.leavesCount + 1
                              ELSE t.layers[layerIdx].len \div ChunkSize
        newExpectendLayerNodeCount ==
            prevLayerNodeCount \div 2 + (IF prevLayerNodeCount % 2 # 0 THEN 1 ELSE 0)
        newLayerSize == newExpectendLayerNodeCount * ChunkSize
        capacity == (newLayerSize \div 2) * 3
        fresh == MakeLayer(newLayerSize, capacity)
        \* make + copy(new, tmp): tmp's len bytes land at the front
        grown == [fresh EXCEPT !.data =
                    [j \in 1..Len(fresh.data) |->
                        IF j * ChunkSize <= l.len THEN l.data[j]
                        ELSE IF (j - 1) * ChunkSize < l.len
                        THEN Prefix(l.len - (j - 1) * ChunkSize, l.data[j])
                        ELSE Zero]]
        kept == IF newLayerSize > l.cap THEN grown ELSE [l EXCEPT !.len = newLayerSize]
    IN IF prevLayerNodeCount \div 2 = 0
       THEN [t EXCEPT !.layers[layerIdx + 1].len = 0]
       ELSE IF l.nil THEN [t EXCEPT !.layers[layerIdx + 1] = fresh]
       ELSE [t EXCEPT !.layers[layerIdx + 1] =
                          CopyZeroAt(kept, newLayerSize - ChunkSize)]

RECURSIVE extendLayersFrom(_, _)
extendLayersFrom(t, i) ==
    IF i >= Len(t.layers) THEN t
    ELSE extendLayersFrom(extendLayer(t, i), i + 1)

\* AppendLeaf()
AppendLeaf(t) ==
    LET t1 == extendLayersFrom(t, 0)
    IN [t1 EXCEPT !.leavesCount = @ + 1, !.dirtyLeaves = Append(@, FALSE)]

\* CopyInto: layer ol of `other` after it received layer ml of m
CopyLayer(ml, ol) ==
    LET requiredLayerLen == ml.len
        dst == IF ol.cap < requiredLayerLen
               THEN MakeLayer(requiredLayerLen,
                              requiredLayerLen + requiredLayerLen \div 2)
               ELSE [ol EXCEPT !.len = requiredLayerLen]
    IN [dst EXCEPT !.data =
          [j \in 1..Len(dst.data) |->
              IF j * ChunkSize <= requiredLayerLen THEN ml.data[j]
              ELSE IF (j - 1) * ChunkSize < requiredLayerLen
              THEN Mix(requiredLayerLen - (j - 1) * ChunkSize, ml.data[j], dst.data[j])
              ELSE dst.data[j]]]

\* m.CopyInto(other): the tree `other` becomes.  other.layers is resliced
\* when its capacity (layers and hidden together) suffices, made anew
\* otherwise; computeLeaf is copied by the caller of this operator.
CopyInto(m, other) ==
    LET requiredLayersLen == Len(m.layers)
        whole == other.layers \o other.hidden
        slots == IF Len(whole) < requiredLayersLen
                 THEN [i \in 1..(requiredLayersLen + requiredLayersLen \div 2) |-> NilLayer]
                 ELSE whole
    IN [other EXCEPT
          !.leavesCount = m.leavesCount,
          !.limit = m.limit,
          !.layers = [i \in 1..requiredLayersLen |-> CopyLayer(m.layers[i], slots[i])],
          !.hidden = SubSeq(slots, requiredLayersLen + 1, Len(slots)),
          !.dirtyLeaves = m.dirtyLeaves]

\* the root of the binary Merkle tree of the given depth whose first leaves
\* are the chunks and whose remaining leaves are zero chunks
RECURSIVE MerkleRootOf(_, _)
MerkleRootOf(chunks, depth) ==
    IF depth = 0 THEN (IF Len(chunks) = 0 THEN Zero ELSE chunks[1])
    ELSE LET half == Shl1(depth - 1)
         IN Hash(MerkleRootOf(SubSeq(chunks, 1, Min(half, Len(chunks))), depth - 1),
                 MerkleRootOf(SubSeq(chunks, half + 1, Len(chunks)), depth - 1))

\* the root obtained by merkleizing the first n leaves from scratch, padded
\* to the limit when one is set and to the next power of two otherwise
ScratchRoot(lv, n, limit) ==
    MerkleRootOf(SubSeq(lv, 1, n),
                 nextPowerOf2Index(IF limit = NoLimit THEN n ELSE limit))

\* bounds of the tree model
MaxLeaves == 4          \* leaves of the tree, after appends
MaxTreeDepth == 3       \* maxTreeCacheDepth is drawn from 1..MaxTreeDepth
MaxLeafValue == 1       \* leaf chunks are Leaf(0) .. Leaf(MaxLeafValue)
TreeLimit == 8          \* the leaf limit of trees built with one

LeafValues == {Leaf(v) : v \in 0..MaxLeafValue}
TreeLimits == {NoLimit, TreeLimit}

\* the tree after Initialize(n, depth, computeLeaf, limit), leaves all Leaf(1)
TreeInit ==
    \E n \in 0..MaxLeaves, d \in 1..MaxTreeDepth, limit \in TreeLimits :
        /\ tree = Initialize(n, d, limit)
        /\ leaves = [i \in 1..n |-> Leaf(1)]
        /\ treeOut = NoRoot
        /\ treeHist = [computed |-> FALSE, earlyMark |-> FALSE]

\* no tree in use, for the specifications of the other components
TreeIdle ==
    /\ tree = ZeroTree
    /\ leaves = <<>>
    /\ treeOut = NoRoot
    /\ treeHist = [computed |-> FALSE, earlyMark |-> FALSE]

\* the caller changes the data of leaf idx (what computeLeaf will write) and
\* calls MarkLeafAsDirty(idx): m.dirtyLeaves[idx].Store(true)
TreeSetLeaf(idx, v) ==
    /\ tree.status = "ok"
    /\ idx < tree.leavesCount
    /\ leaves[idx + 1] # v
    /\ leaves' = [leaves EXCEPT ![idx + 1] = v]
    /\ tree' = [tree EXCEPT !.dirtyLeaves[idx + 1] = TRUE]
    /\ treeHist' = [treeHist EXCEPT !.earlyMark = @ \/ ~treeHist.computed]
    /\ treeOut' = NoRoot
    /\ UNCHANGED <<concVars, nonTreeVars>>

\* MarkLeafAsDirty(idx) on a leaf whose data did not change
TreeMarkLeafAsDirty(idx) ==
    /\ tree.status = "ok"
    /\ idx < tree.leavesCount
    /\ ~tree.dirtyLeaves[idx + 1]
    /\ tree' = [tree EXCEPT !.dirtyLeaves[idx + 1] = TRUE]
    /\ treeHist' = [treeHist EXCEPT !.earlyMark = @ \/ ~treeHist.computed]
    /\ treeOut' = NoRoot
    /\ UNCHANGED leaves
    /\ UNCHANGED <<concVars, nonTreeVars>>

\* ComputeRoot()
TreeComputeRoot ==
    /\ tree.status = "ok"
    /\ LET r == ComputeRoot(tree, leaves) IN
        /\ tree' = r.t
        /\ treeOut' = [kind |-> r.out.kind,
                       root |-> IF r.out.kind = "root" THEN r.out.root ELSE Zero,
                       scratch |-> ScratchRoot(leaves, tree.leavesCount, tree.limit),
                       hist |-> treeHist]
    /\ treeHist' = [treeHist EXCEPT !.computed = TRUE]
    /\ UNCHANGED leaves
    /\ UNCHANGED <<concVars, nonTreeVars>>

\* AppendLeaf(), the caller having added the data of the new leaf
TreeAppendLeaf(v) ==
    /\ tree.status = "ok"
    /\ tree.leavesCount < MaxLeaves
    /\ tree' = AppendLeaf(tree)
    /\ leaves' = Append(leaves, v)
    /\ treeOut' = NoRoot
    /\ UNCHANGED treeHist
    /\ UNCHANGED <<concVars, nonTreeVars>>

TreeNext ==
    \/ \E idx \in 0..(MaxLeaves - 1), v \in LeafValues : TreeSetLeaf(idx, v)
    \/ \E idx \in 0..(MaxLeaves - 1) : TreeMarkLeafAsDirty(idx)
    \/ TreeComputeRoot
    \/ \E v \in LeafValues : TreeAppendLeaf(v)

(***************************************************************************)
(* The tree and the leaf data of its caller, which may change a leaf       *)
(* without telling the tree.  treeHist keeps what the last ComputeRoot     *)
(* returned (prev), whether MarkLeafAsDirty or AppendLeaf was called since *)
(* (quiet: neither was), the leaves changed and not marked since           *)
(* (unmarked), and the calls made.                                         *)
(***************************************************************************)
MaxTreeLeaves == 6      \* leaves of the tree, after appends
MaxLeafOps == 3         \* leaf changes, marks and appends in one behaviour

\* the trees have no limit, or a limit that is a power of two and no less
\* than the leaves they come to hold
LeavesLimits == {NoLimit, Shl1(MaxTreeDepth)}

LeavesInit ==
    \E n \in 0..MaxTreeLeaves, d \in 1..MaxTreeDepth, limit \in LeavesLimits :
        /\ tree = Initialize(n, d, limit)
        /\ leaves = [i \in 1..n |-> Leaf(1)]
        /\ treeOut = NoRoot
        /\ treeHist = [computed |-> FALSE, earlyMark |-> FALSE, prev |-> NoRoot,
                       quiet |-> TRUE, unmarked |-> {}, appended |-> FALSE,
                       ops |-> 0]

\* the caller changes the data of leaf idx, which computeLeaf reads, and
\* makes no call
LeafWrite(idx, v) ==
    /\ tree.status = "ok"
    /\ treeHist.ops < MaxLeafOps
    /\ idx < tree.leavesCount
    /\ leaves[idx + 1] # v
    /\ leaves' = [leaves EXCEPT ![idx + 1] = v]
    /\ treeHist' = [treeHist EXCEPT !.unmarked = @ \cup {idx}, !.ops = @ + 1]
    /\ treeOut' = NoRoot
    /\ UNCHANGED <<tree, concVars, nonTreeVars>>

\* MarkLeafAsDirty(idx): m.dirtyLeaves[idx].Store(true)
LeafMark(idx) ==
    /\ tree.status = "ok"
    /\ treeHist.ops < MaxLeafOps
    /\ idx < tree.leavesCount
    /\ tree' = [tree EXCEPT !.dirtyLeaves[idx + 1] = TRUE]
    /\ treeHist' = [treeHist EXCEPT !.earlyMark = @ \/ ~treeHist.computed,
                                    !.quiet = FALSE,
                                    !.unmarked = @ \ {idx},
                                    !.ops = @ + 1]
    /\ treeOut' = NoRoot
    /\ UNCHANGED <<leaves, concVars, nonTreeVars>>

\* AppendLeaf(), the caller having added the data of the new leaf
LeafAppend(v) ==
    /\ tree.status = "ok"
    /\ treeHist.ops < MaxLeafOps
    /\ tree.leavesCount < MaxTreeLeaves
    /\ tree' = AppendLeaf(tree)
    /\ leaves' = Append(leaves, v)
    /\ treeHist' = [treeHist EXCEPT !.quiet = FALSE, !.appended = TRUE,
                                    !.ops = @ + 1]
    /\ treeOut' = NoRoot
    /\ UNCHANGED <<concVars, nonTreeVars>>

\* what ComputeRoot returned: a root, or the panic
Returned(out) ==
    [kind |-> out.kind, root |-> IF out.kind = "root" THEN out.root ELSE Zero]

\* ComputeRoot(), r its result
LeavesComputed(r) ==
    /\ tree' = r.t
    /\ treeOut' = [kind |-> r.out.kind,
                   root |-> Returned(r.out).root,
                   scratch |-> ScratchRoot(leaves, tree.leavesCount, tree.limit),
                   hist |-> treeHist]
    /\ treeHist' = [treeHist EXCEPT !.computed = TRUE, !.quiet = TRUE,
                                    !.prev = Returned(r.out)]
LeavesComputeRoot ==
    /\ tree.status = "ok"
    /\ LeavesComputed(ComputeRoot(tree, leaves))
    /\ UNCHANGED <<leaves, concVars, nonTreeVars>>

LeavesNext ==
    \/ \E idx \in 0..(MaxTreeLeaves - 1) : LeafWrite(idx, Leaf(2))
    \/ \E idx \in 0..(MaxTreeLeaves - 1) : LeafMark(idx)
    \/ \E v \in LeafValues : LeafAppend(v)
    \/ LeavesComputeRoot

(***************************************************************************)
(* MerkleTree under concurrent callers: m.mu, the atomic dirty flags, and  *)
(* a second tree, the peer as the peer of CopyInto                           *)
(***************************************************************************)
NumThreads == 2         \* goroutines calling into the tree
ConcTreeDepth == 2      \* maxTreeCacheDepth of the shared tree

Threads == 1..NumThreads
NoThread == 0
\* sync.RWMutex: the writer holding it (or NoThread) and the readers
Unlocked == [w |-> NoThread, r |-> {}]
\* (mutant) a Lock that does not wait for the readers
CanLockBesideReaders(l) == l.w = NoThread
CanLock(l) == l.w = NoThread /\ l.r = {}
CanRLock(l) == l.w = NoThread
MaxCalls == 3           \* calls each goroutine makes in one behaviour
\* a goroutine between calls, with n calls made so far
Between(n) == [pc |-> "idle", idx |-> 0, fn |-> 0, calls |-> n]
Idle == Between(0)
\* goroutine th enters a call: it is between calls and has calls left
Enter(th, pc, idx, fn) ==
    [pc |-> pc, idx |-> idx, fn |-> fn, calls |-> thr[th].calls + 1]
CanEnter(th) == thr[th].pc = "idle" /\ thr[th].calls < MaxCalls

\* the computeLeaf functions callers install: function 1 reads the caller's
\* leaf data, function 2 writes the same chunk for every leaf
OtherLeafValue == MaxLeafValue + 1
LeavesOf(f) ==
    IF f = 1 THEN leaves ELSE [i \in 1..Len(leaves) |-> Leaf(OtherLeafValue)]

\* the shared tree after Initialize(n, ConcTreeDepth, computeLeaf, nil), the
\* peer a MerkleTree{}, no goroutine inside a call
ConcInitWith(n) ==
    /\ tree = Initialize(n, ConcTreeDepth, NoLimit)
    /\ leaves = [i \in 1..n |-> Leaf(1)]
    /\ treeOut = NoRoot
    /\ treeHist = [computed |-> FALSE, earlyMark |-> FALSE]
    /\ peer = ZeroTree
    /\ mu = Unlocked
    /\ peerMu = Unlocked
    /\ thr = [th \in Threads |-> Idle]
    /\ leafFn = 1
    /\ peerFn = 0

MarksInit == ConcInitWith(MaxLeaves)
ConcInit == ConcInitWith(MaxLeaves - 1)

\* no concurrent callers, for the specifications of the peer components
ConcIdle ==
    /\ peer = ZeroTree
    /\ mu = Unlocked
    /\ peerMu = Unlocked
    /\ thr = [th \in Threads |-> Idle]
    /\ leafFn = 1
    /\ peerFn = 0

\* a caller writes new data for leaf idx, before it calls MarkLeafAsDirty(idx);
\* the leaves are split among the goroutines, so no two write the same leaf
ConcWriteLeaf(th, idx, v) ==
    /\ tree.status = "ok"
    /\ CanEnter(th)
    /\ idx < tree.leavesCount
    /\ idx % NumThreads = th - 1
    /\ leaves[idx + 1] # v
    /\ leaves' = [leaves EXCEPT ![idx + 1] = v]
    /\ thr' = [thr EXCEPT ![th] = Enter(th, "wrote", idx, 0)]
    /\ treeOut' = NoRoot
    /\ UNCHANGED <<tree, treeHist, peer, mu, peerMu, leafFn, peerFn>>
    /\ UNCHANGED nonTreeVars

\* MarkLeafAsDirty(idx): m.mu.RLock()
ConcMarkRLock(th) ==
    /\ tree.status = "ok"
    /\ thr[th].pc = "wrote"
    /\ CanRLock(mu)
    /\ mu' = [mu EXCEPT !.r = @ \cup {th}]
    /\ thr' = [thr EXCEPT ![th].pc = "marking"]
    /\ treeOut' = NoRoot
    /\ UNCHANGED <<tree, leaves, treeHist, peer, peerMu, leafFn, peerFn>>
    /\ UNCHANGED nonTreeVars

\* MarkLeafAsDirty(idx): m.dirtyLeaves[idx].Store(true), then RUnlock
ConcMarkStore(th) ==
    /\ thr[th].pc = "marking"
    /\ IF thr[th].idx < Len(tree.dirtyLeaves)
       THEN tree' = [tree EXCEPT !.dirtyLeaves[thr[th].idx + 1] = TRUE]
       ELSE tree' = Panic(tree)
    /\ treeHist' = [treeHist EXCEPT !.earlyMark = @ \/ ~treeHist.computed]
    /\ mu' = [mu EXCEPT !.r = @ \ {th}]
    /\ thr' = [thr EXCEPT ![th] = Between(thr[th].calls)]
    /\ treeOut' = NoRoot
    /\ UNCHANGED <<leaves, peer, peerMu, leafFn, peerFn>>
    /\ UNCHANGED nonTreeVars

\* ComputeRoot(): m.mu.Lock()
ConcComputeLock(th) ==
    /\ tree.status = "ok"
    /\ CanEnter(th)
    /\ CanLock(mu)
    /\ mu' = [mu EXCEPT !.w = th]
    /\ thr' = [thr EXCEPT ![th] = Enter(th, "computing", 0, leafFn)]
    /\ treeOut' = NoRoot
    /\ UNCHANGED <<tree, leaves, treeHist, peer, peerMu, leafFn, peerFn>>
    /\ UNCHANGED nonTreeVars

\* the leaf data a ComputeRoot may read when m.computeLeaf was fn0 at its
\* start and is fn1 now: the unsynchronised write of SetComputeLeafFn can
\* land between any two calls of m.computeLeaf
RacyLeaves(fn0, fn1) ==
    IF fn0 = fn1 THEN {LeavesOf(fn1)}
    ELSE {[i \in 1..Len(leaves) |-> IF i \in S THEN LeavesOf(fn0)[i] ELSE LeavesOf(fn1)[i]] :
             S \in SUBSET (1..Len(leaves))}

\* ComputeRoot(): the body and the deferred Unlock
ConcComputeRoot(th) ==
    /\ thr[th].pc = "computing"
    /\ \E lv \in RacyLeaves(thr[th].fn, leafFn) :
         LET r == ComputeRoot(tree, lv) IN
         /\ tree' = r.t
         /\ treeOut' = [kind |-> r.out.kind,
                        root |-> IF r.out.kind = "root" THEN r.out.root ELSE Zero,
                        scratch |-> ScratchRoot(LeavesOf(leafFn), tree.leavesCount,
                                                tree.limit),
                        hist |-> treeHist,
                        inFlight |-> \E t2 \in Threads : thr[t2].pc \in {"wrote", "marking"},
                        raced |-> thr[th].fn # leafFn]
    /\ treeHist' = [treeHist EXCEPT !.computed = TRUE]
    /\ mu' = [mu EXCEPT !.w = NoThread]
    /\ thr' = [thr EXCEPT ![th] = Between(thr[th].calls)]
    /\ UNCHANGED <<leaves, peer, peerMu, leafFn, peerFn>>
    /\ UNCHANGED nonTreeVars

\* AppendLeaf(): m.mu.Lock()
ConcAppendLock(th) ==
    /\ tree.status = "ok"
    /\ CanEnter(th)
    /\ tree.leavesCount < MaxLeaves
    /\ CanLock(mu)
    /\ mu' = [mu EXCEPT !.w = th]
    /\ thr' = [thr EXCEPT ![th] = Enter(th, "appending", 0, 0)]
    /\ treeOut' = NoRoot
    /\ UNCHANGED <<tree, leaves, treeHist, peer, peerMu, leafFn, peerFn>>
    /\ UNCHANGED nonTreeVars

\* AppendLeaf(): the body and the deferred Unlock; the caller's data for the
\* new leaf is v
ConcAppendLeaf(th, v) ==
    /\ thr[th].pc = "appending"
    /\ tree' = AppendLeaf(tree)
    /\ leaves' = IF tree.leavesCount < Len(leaves)
                 THEN [leaves EXCEPT ![tree.leavesCount + 1] = v]
                 ELSE Append(leaves, v)
    /\ mu' = [mu EXCEPT !.w = NoThread]
    /\ thr' = [thr EXCEPT ![th] = Between(thr[th].calls)]
    /\ treeOut' = NoRoot
    /\ UNCHANGED <<treeHist, peer, peerMu, leafFn, peerFn>>
    /\ UNCHANGED nonTreeVars

\* SetComputeLeafFn(f) is entered; it takes no lock
ConcSetFnEnter(th, f) ==
    /\ tree.status = "ok"
    /\ CanEnter(th)
    /\ f # leafFn
    /\ thr' = [thr EXCEPT ![th] = Enter(th, "settingFn", 0, f)]
    /\ treeOut' = NoRoot
    /\ UNCHANGED <<tree, leaves, treeHist, peer, mu, peerMu, leafFn, peerFn>>
    /\ UNCHANGED nonTreeVars

\* SetComputeLeafFn(f): m.computeLeaf = computeLeaf
ConcSetFnStore(th) ==
    /\ thr[th].pc = "settingFn"
    /\ leafFn' = thr[th].fn
    /\ thr' = [thr EXCEPT ![th] = Between(thr[th].calls)]
    /\ treeOut' = NoRoot
    /\ UNCHANGED <<tree, leaves, treeHist, peer, mu, peerMu, peerFn>>
    /\ UNCHANGED nonTreeVars

\* m.CopyInto(other): other.mu.Lock()
ConcCopyOutLock(th) ==
    /\ tree.status = "ok"
    /\ CanEnter(th)
    /\ CanLock(peerMu)
    /\ peerMu' = [peerMu EXCEPT !.w = th]
    /\ thr' = [thr EXCEPT ![th] = Enter(th, "copyOutLocked", 0, 0)]
    /\ treeOut' = NoRoot
    /\ UNCHANGED <<tree, leaves, treeHist, peer, mu, leafFn, peerFn>>
    /\ UNCHANGED nonTreeVars

\* m.CopyInto(other): m.mu.RLock()
ConcCopyOutRLock(th) ==
    /\ thr[th].pc = "copyOutLocked"
    /\ CanRLock(mu)
    /\ mu' = [mu EXCEPT !.r = @ \cup {th}]
    /\ thr' = [thr EXCEPT ![th].pc = "copyingOut"]
    /\ treeOut' = NoRoot
    /\ UNCHANGED <<tree, leaves, treeHist, peer, peerMu, leafFn, peerFn>>
    /\ UNCHANGED nonTreeVars

\* m.CopyInto(other): the body and the deferred unlocks
ConcCopyOut(th) ==
    /\ thr[th].pc = "copyingOut"
    /\ peer' = CopyInto(tree, peer)
    /\ peerFn' = leafFn
    /\ mu' = [mu EXCEPT !.r = @ \ {th}]
    /\ peerMu' = [peerMu EXCEPT !.w = NoThread]
    /\ thr' = [thr EXCEPT ![th] = Between(thr[th].calls)]
    /\ treeOut' = NoRoot
    /\ UNCHANGED <<tree, leaves, treeHist, leafFn>>
    /\ UNCHANGED nonTreeVars

\* other.CopyInto(m): m.mu.Lock()
ConcCopyInLock(th) ==
    /\ tree.status = "ok"
    /\ CanEnter(th)
    /\ peerFn # 0
    /\ CanLock(mu)
    /\ mu' = [mu EXCEPT !.w = th]
    /\ thr' = [thr EXCEPT ![th] = Enter(th, "copyInLocked", 0, 0)]
    /\ treeOut' = NoRoot
    /\ UNCHANGED <<tree, leaves, treeHist, peer, peerMu, leafFn, peerFn>>
    /\ UNCHANGED nonTreeVars

\* other.CopyInto(m): other.mu.RLock()
ConcCopyInRLock(th) ==
    /\ thr[th].pc = "copyInLocked"
    /\ CanRLock(peerMu)
    /\ peerMu' = [peerMu EXCEPT !.r = @ \cup {th}]
    /\ thr' = [thr EXCEPT ![th].pc = "copyingIn"]
    /\ treeOut' = NoRoot
    /\ UNCHANGED <<tree, leaves, treeHist, peer, mu, leafFn, peerFn>>
    /\ UNCHANGED nonTreeVars

\* other.CopyInto(m): the body and the deferred unlocks
ConcCopyIn(th) ==
    /\ thr[th].pc = "copyingIn"
    /\ tree' = CopyInto(peer, tree)
    /\ leafFn' = peerFn
    /\ peerMu' = [peerMu EXCEPT !.r = @ \ {th}]
    /\ mu' = [mu EXCEPT !.w = NoThread]
    /\ thr' = [thr EXCEPT ![th] = Between(thr[th].calls)]
    /\ treeOut' = NoRoot
    /\ UNCHANGED <<leaves, treeHist, peer, peerFn>>
    /\ UNCHANGED nonTreeVars

\* callers that only write leaves, mark them dirty and compute the root
MarksNext ==
    \/ \E th \in Threads, idx \in 0..(MaxLeaves - 1), v \in LeafValues :
          ConcWriteLeaf(th, idx, v)
    \/ \E th \in Threads : ConcMarkRLock(th)
    \/ \E th \in Threads : ConcMarkStore(th)
    \/ \E th \in Threads : ConcComputeLock(th)
    \/ \E th \in Threads : ConcComputeRoot(th)

\* callers using every operation of the tree
ConcNext ==
    \/ \E th \in Threads, idx \in 0..(MaxLeaves - 1), v \in LeafValues :
          ConcWriteLeaf(th, idx, v)
    \/ \E th \in Threads : ConcMarkRLock(th)
    \/ \E th \in Threads : ConcMarkStore(th)
    \/ \E th \in Threads : ConcComputeLock(th)
    \/ \E th \in Threads : ConcComputeRoot(th)
    \/ \E th \in Threads : ConcAppendLock(th)
    \/ \E th \in Threads, v \in LeafValues : ConcAppendLeaf(th, v)
    \/ \E th \in Threads, f \in {1, 2} : ConcSetFnEnter(th, f)
    \/ \E th \in Threads : ConcSetFnStore(th)
    \/ \E th \in Threads : ConcCopyOutLock(th)
    \/ \E th \in Threads : ConcCopyOutRLock(th)
    \/ \E th \in Threads : ConcCopyOut(th)
    \/ \E th \in Threads : ConcCopyInLock(th)
    \/ \E th \in Threads : ConcCopyInRLock(th)
    \/ \E th \in Threads : ConcCopyIn(th)

(***************************************************************************)
(* flexssz.Builder: the stack + heap encoder                               *)
(***************************************************************************)

\* A size is a Go int (64 bits), kept as <<hi, lo>> = hi * Half + lo with
\* 0 <= lo < Half, so that sizes of 2^32 bytes and more can be written down.
Half == 65536
GoInt(n) == <<n \div Half, n % Half>>
IntAdd(a, b) ==
    LET lo == a[2] + b[2] IN <<a[1] + b[1] + (lo \div Half), lo % Half>>
IntLeq(a, b) == a[1] < b[1] \/ (a[1] = b[1] /\ a[2] <= b[2])

\* the conversion uint32(x)
Uint32(a) == <<a[1] % Half, a[2]>>

\* a []byte: its length, and its bytes when the content is tracked
Lit(bs) == [len |-> GoInt(Len(bs)), bytes |-> bs]
\* a []byte of n bytes whose content is not tracked
Run(n) == [len |-> n, bytes |-> <<>>]

\* binary.Write(w, order, uint32): four bytes, little-endian
PutUint32(x) ==
    <<x[2] % 256, x[2] \div 256, x[1] % 256, x[1] \div 256>>
\* order.Uint32: the value of four little-endian bytes
GetUint32(bs) == <<bs[3] + 256 * bs[4], bs[1] + 256 * bs[2]>>

PtrSize == 4

\* a word of the stack: data (pointer < 0) or a virtual pointer to the heap
DataWord(xs) == [pointer |-> GoInt(-1), dat |-> xs]
PtrWord(hz) == [pointer |-> hz, dat |-> Run(GoInt(0))]

\* word.EncodeTo(plus, w): what the word writes
EncodeTo(v, plus) ==
    IF v.pointer[1] < 0
        THEN v.dat
        ELSE Lit(PutUint32(Uint32(IntAdd(plus, v.pointer))))

\* memory of a new Builder
NewMemory == [stack |-> <<>>, currentHeap |-> <<>>, cur |-> GoInt(0), hz |-> GoInt(0)]

\* Builder.Write
Write(m, xs) ==
    [m EXCEPT !.stack = Append(@, DataWord(xs)),
              !.cur = Uint32(IntAdd(@, xs.len))]

\* Builder.appendHeap: r is the EncodeFunc curried onto the heap
appendHeap(m, sz, r) ==
    [m EXCEPT !.cur = Uint32(IntAdd(@, GoInt(PtrSize))),
              !.stack = Append(@, PtrWord(m.hz)),
              !.hz = IntAdd(@, sz),
              !.currentHeap = Append(@, r)]

\* Builder.EncodeBytes
EncodeBytes(m, xs) == appendHeap(m, xs.len, [fn |-> "bytes", xs |-> xs])

\* Builder.ExitDynamic of d, whose parent is parent: the parent afterwards
ExitDynamic(d, parent) ==
    appendHeap(parent, IntAdd(d.hz, d.cur), [fn |-> "dynamic", d |-> d])

\* the loop over d.stack in Finish and in the closure of ExitDynamic
RECURSIVE EncodeStack(_, _)
EncodeStack(stack, plus) ==
    IF stack = <<>> THEN <<>>
    ELSE <<EncodeTo(Head(stack), plus)>> \o EncodeStack(Tail(stack), plus)

\* what a builder writes: its stack, then its heap (curryHeap runs the
\* EncodeFuncs in the order they were appended)
RECURSIVE EncodeMemory(_)
RECURSIVE EncodeHeap(_)
EncodeMemory(m) == EncodeStack(m.stack, m.cur) \o EncodeHeap(m.currentHeap)
EncodeHeap(h) ==
    IF h = <<>> THEN <<>>
    ELSE (IF Head(h).fn = "bytes" THEN <<Head(h).xs>>
          ELSE EncodeMemory(Head(h).d)) \o EncodeHeap(Tail(h))

\* Builder.Finish: the chunks written to d.w, in order
Finish(d) == EncodeMemory(d)

\* bounds of the builder runs
MaxWords == 4          \* words written altogether, on all stacks
MaxNesting == 3        \* builders open at once, the root included
HugeSize == <<65535, 65532>>   \* 2^32 - 4 bytes
WriteSizes == {GoInt(0), GoInt(1), HugeSize}

NotFinished == [done |-> FALSE, out |-> <<>>, err |-> ""]

BuilderInit ==
    /\ builder = <<NewMemory>>
    /\ written = NotFinished

\* the builder as the other specifications leave it
BuilderIdle ==
    /\ builder = <<>>
    /\ written = NotFinished

\* the words on the stack of m and of every builder closed into its heap
RECURSIVE WordCount(_)
RECURSIVE HeapWordCount(_)
WordCount(m) == Len(m.stack) + HeapWordCount(m.currentHeap)
HeapWordCount(h) ==
    IF h = <<>> THEN 0
    ELSE (IF Head(h).fn = "bytes" THEN 0 ELSE WordCount(Head(h).d))
         + HeapWordCount(Tail(h))

RECURSIVE OpenWordCount(_)
OpenWordCount(bs) ==
    IF bs = <<>> THEN 0 ELSE WordCount(Head(bs)) + OpenWordCount(Tail(bs))

\* room for one more word, counting the pointer each open child will add
CanEmit ==
    /\ builder # <<>>
    /\ ~written.done
    /\ OpenWordCount(builder) + (Len(builder) - 1) < MaxWords

\* d.Write(xs) (EncodeFixed, EncodeUint8, ...) on the innermost open builder
BuilderWrite(n) ==
    /\ CanEmit
    /\ builder' = [builder EXCEPT ![Len(builder)] = Write(@, Run(n))]
    /\ UNCHANGED <<written, nonBuilderVars>>

\* d.EncodeBytes(xs) on the innermost open builder
BuilderEncodeBytes(n) ==
    /\ CanEmit
    /\ builder' = [builder EXCEPT ![Len(builder)] = EncodeBytes(@, Run(n))]
    /\ UNCHANGED <<written, nonBuilderVars>>

\* d.EnterDynamic()
BuilderEnterDynamic ==
    /\ CanEmit
    /\ Len(builder) < MaxNesting
    /\ builder' = Append(builder, NewMemory)
    /\ UNCHANGED <<written, nonBuilderVars>>

\* d.ExitDynamic() with d.parent # nil
BuilderExitDynamic ==
    /\ Len(builder) > 1
    /\ ~written.done
    /\ LET n == Len(builder) IN
         builder' = [SubSeq(builder, 1, n - 1) EXCEPT
                        ![n - 1] = ExitDynamic(builder[n], @)]
    /\ UNCHANGED <<written, nonBuilderVars>>

\* err := root.Finish(), the writer being a bytes.Buffer: EncodeTo and the
\* heap functions return the errors of the writer only, so err is nil
BuilderFinish ==
    /\ Len(builder) = 1
    /\ ~written.done
    /\ written' = [done |-> TRUE, out |-> Finish(builder[1]), err |-> ""]
    /\ UNCHANGED <<builder, nonBuilderVars>>

BuilderNext ==
    \/ \E n \in WriteSizes : BuilderWrite(n)
    \/ \E n \in WriteSizes : BuilderEncodeBytes(n)
    \/ BuilderEnterDynamic
    \/ BuilderExitDynamic
    \/ BuilderFinish


(***************************************************************************)
(* What was written, measured on the output                                *)
(***************************************************************************)
\* the number of bytes in a sequence of written chunks
RECURSIVE SumLen(_)
SumLen(chunks) ==
    IF chunks = <<>> THEN GoInt(0)
    ELSE IntAdd(Head(chunks).len, SumLen(Tail(chunks)))

\* the builder m and every builder closed into its heap, each with the index
\* in the output of the first chunk it wrote (at) 
RECURSIVE Contexts(_, _)
RECURSIVE HeapContexts(_, _)
Contexts(m, at) ==
    {[d |-> m, at |-> at]} \cup HeapContexts(m.currentHeap, at + Len(m.stack))
HeapContexts(h, at) ==
    IF h = <<>> THEN {}
    ELSE IF Head(h).fn = "bytes" THEN HeapContexts(Tail(h), at + 1)
    ELSE Contexts(Head(h).d, at)
         \cup HeapContexts(Tail(h), at + Len(EncodeMemory(Head(h).d)))

\* the chunks of the output that the context c wrote
FixedPartOf(c) == SubSeq(written.out, c.at + 1, c.at + Len(c.d.stack))
EncodingOf(c) == SubSeq(written.out, c.at + 1, c.at + Len(EncodeMemory(c.d)))

\* the offsets stored in the fixed part of c, as they read in the output
OffsetsOf(c) ==
    LET fixed == FixedPartOf(c)
        idx == SelectSeq([i \in 1..Len(fixed) |-> i],
                         LAMBDA i : c.d.stack[i].pointer[1] >= 0)
    IN  [j \in 1..Len(idx) |-> GetUint32(fixed[idx[j]].bytes)]

\* the index in the output of the first chunk of the j-th heap entry of c
HeapEntryAt(c, j) ==
    c.at + Len(c.d.stack) + Len(EncodeHeap(SubSeq(c.d.currentHeap, 1, j - 1)))

(***************************************************************************)
(* flexssz: reflected types and their TypeInfo                             *)
(***************************************************************************)
\* reflect.Type of the Go types in use
GoUint8 == [Kind |-> "uint8"]
GoUint16 == [Kind |-> "uint16"]
GoBool == [Kind |-> "bool"]
GoString == [Kind |-> "string"]
GoSlice(e) == [Kind |-> "slice", Elem |-> e]
GoStruct(fields) == [Kind |-> "struct", Fields |-> fields]
\* a struct field with its `ssz:"..."` and `ssz-max:"..."` tags ("" and 0:
\* the tag is absent) and no `ssz-size:"..."` tag
StructField(name, t, ssz, sszMax) ==
    [Name |-> name, Type |-> t, ssz |-> ssz, sszMax |-> sszMax,
     sszMaxSet |-> sszMax > 0, unbounded |-> FALSE, sszSize |-> <<>>]
\* a struct field with the tag `ssz-size:"s1,s2,.."`
SizedField(name, t, sizes) ==
    [StructField(name, t, "", 0) EXCEPT !.sszSize = sizes]
\* a struct field with the tag `ssz-max:"n"`, n = 0 included
MaxField(name, t, sszMax) ==
    [StructField(name, t, "", sszMax) EXCEPT !.sszMaxSet = TRUE]
\* a struct field with the tag `ssz-max:"?"`
UnboundedField(name, t) ==
    [StructField(name, t, "", 0) EXCEPT !.sszMaxSet = TRUE, !.unbounded = TRUE]

\* &sszTag{}
EmptyTag == [FieldType |-> "", Size |-> <<>>, MaxList |-> 0, IsVariable |-> FALSE]

\* no error
NoErr == ""

detectFieldType(t) ==
    CASE t.Kind = "uint8" -> "uint8"
      [] t.Kind = "uint16" -> "uint16"
      [] t.Kind = "bool" -> "bool"
      [] t.Kind = "string" -> "string"
      [] t.Kind = "slice" -> "list"
      [] t.Kind = "struct" -> "container"
      [] OTHER -> ""

RECURSIVE parseTypeInfo(_, _)
RECURSIVE parseFields(_, _)
RECURSIVE typeIsVariable(_, _)

\* GetTypeInfo: the cache holds what parseTypeInfo returns
GetTypeInfo(t, tag) == parseTypeInfo(t, tag)

structHasVariableFields(t) == GetTypeInfo(t, EmptyTag).IsVariable

typeIsVariable(t, tag) ==
    IF tag.IsVariable THEN TRUE
    ELSE CASE t.Kind = "string" -> TRUE
           [] t.Kind = "slice" -> ~(Len(tag.Size) > 0)
           [] t.Kind = "struct" -> structHasVariableFields(t)
           [] OTHER -> FALSE

\* parseSSZTags of a struct field
parseSSZTags(field) ==
    LET tag == [FieldType |-> IF field.ssz # "" THEN field.ssz
                              ELSE detectFieldType(field.Type),
                Size |-> field.sszSize,
                MaxList |-> IF field.unbounded THEN 0 ELSE field.sszMax,
                IsVariable |-> field.sszMaxSet]
    IN  IF ~tag.IsVariable /\ Len(tag.Size) = 0
            THEN [tag EXCEPT !.IsVariable = typeIsVariable(field.Type, tag)]
            ELSE tag

\* calculateIsVariable for the kinds in use: the basic types are fixed,
\* lists and bitlists are variable, a container is variable when one of its
\* fields is
calculateIsVariable(info) ==
    CASE info.Type \in {"list", "bitlist"} -> TRUE
      [] info.Type = "vector" -> info.ElementType.IsVariable
      [] info.Type = "container" ->
            \E i \in 1..Len(info.Fields) : info.Fields[i].Type.IsVariable
      [] OTHER -> FALSE

\* the loop over the fields of a struct in parseTypeInfo
parseFields(fields, i) ==
    IF i > Len(fields) THEN <<>>
    ELSE <<[Index |-> i, Name |-> fields[i].Name,
            Type |-> GetTypeInfo(fields[i].Type, parseSSZTags(fields[i]))]>>
         \o parseFields(fields, i + 1)

BasicInfo(type, size, tag) ==
    [Type |-> type, FixedSize |-> size, IsVariable |-> FALSE, Tag |-> tag,
     Fields |-> <<>>]

\* fixedOffset after the first i fields of a struct
RECURSIVE fixedOffset(_, _)
fixedOffset(fs, i) ==
    IF i = 0 THEN 0
    ELSE fixedOffset(fs, i - 1)
         + (IF fs[i].Type.IsVariable THEN 4 ELSE fs[i].Type.FixedSize)

\* the TypeInfo of a struct whose fields parsed to fs
ContainerInfo(fs, tag) ==
    [Type |-> "container",
     FixedSize |-> IF \E i \in 1..Len(fs) : fs[i].Type.IsVariable THEN -1
                   ELSE fixedOffset(fs, Len(fs)),
     IsVariable |-> FALSE, Tag |-> tag, Fields |-> fs]

\* the tag of the elements of a slice whose tag is tag
ElemTag(tag) ==
    IF Len(tag.Size) > 1 THEN [EmptyTag EXCEPT !.Size = Tail(tag.Size)]
    ELSE EmptyTag

\* the TypeInfo of a slice with ssz-size (a vector) of elements elemInfo
VectorInfo(elemInfo, tag) ==
    [Type |-> "vector",
     FixedSize |-> IF elemInfo.FixedSize > 0
                   THEN tag.Size[1] * elemInfo.FixedSize
                   ELSE tag.Size[1] * 4,
     IsVariable |-> FALSE, Tag |-> tag, Fields |-> <<>>,
     ElementType |-> elemInfo]

\* calculateIsVariable(info) at the end of parseTypeInfo
withIsVariable(info) == [info EXCEPT !.IsVariable = calculateIsVariable(info)]

parseTypeInfo(t, tag) ==
    CASE t.Kind = "uint8" -> withIsVariable(BasicInfo("uint8", 1, tag))
      [] t.Kind = "uint16" -> withIsVariable(BasicInfo("uint16", 2, tag))
      [] t.Kind = "bool" -> withIsVariable(BasicInfo("boolean", 1, tag))
      [] t.Kind = "string" -> withIsVariable(BasicInfo("list", -1, tag))
      [] t.Kind = "slice" ->
            IF Len(tag.Size) > 0
                THEN withIsVariable(
                         VectorInfo(GetTypeInfo(t.Elem, ElemTag(tag)), tag))
            ELSE withIsVariable(
                BasicInfo(IF tag.FieldType = "bitlist" THEN "bitlist"
                          ELSE "list", -1, tag))
      [] t.Kind = "struct" ->
            withIsVariable(ContainerInfo(parseFields(t.Fields, 1), tag))

(***************************************************************************)
(* flexssz: the type-info cache under concurrent GetTypeInfo(t, nil)       *)
(* A *TypeInfo is a node <<goroutine, k>>: the k-th one the goroutine      *)
(* allocated in parseTypeInfo.                                             *)
(***************************************************************************)
MaxLookups == 2     \* GetTypeInfo calls each goroutine makes from outside

\* the types looked up: 1 is a struct, 2 is a slice of it, whose
\* parseTypeInfo calls GetTypeInfo(t.Elem(), nil)
CacheTypes == {1, 2}
ElemOf(t) == IF t = 2 THEN 1 ELSE 0
NoType == 0
NoNode == <<>>

\* a goroutine outside GetTypeInfo, after n calls and k nodes allocated
LookupIdle(n, k) ==
    [pc |-> "idle", t |-> NoType, outer |-> NoType, info |-> NoNode,
     calls |-> n, made |-> k]

CacheInit ==
    /\ typeInfoCache = [t \in CacheTypes |-> NoNode]
    /\ typeInfoCacheMutex = Unlocked
    /\ lookup = [th \in Threads |-> LookupIdle(0, 0)]

\* the cache as the other specifications leave it
CacheIdle == CacheInit

\* return info, nil: to the caller outside, or to the parseTypeInfo of the
\* outer type that asked for its element type
ReturnInfo(l) ==
    IF l.outer = NoType THEN LookupIdle(l.calls + 1, l.made)
    ELSE [l EXCEPT !.pc = "elem", !.t = l.outer, !.outer = NoType,
                   !.info = NoNode]

\* a goroutine calls GetTypeInfo(t, nil)
CacheCall(th, t) ==
    /\ lookup[th].pc = "idle"
    /\ lookup[th].calls < MaxLookups
    /\ lookup' = [lookup EXCEPT ![th].pc = "call", ![th].t = t]
    /\ UNCHANGED <<typeInfoCache, typeInfoCacheMutex, nonCacheVars>>

\* typeInfoCacheMutex.RLock()
CacheRLock(th) ==
    /\ lookup[th].pc = "call"
    /\ CanRLock(typeInfoCacheMutex)
    /\ typeInfoCacheMutex' =
          [typeInfoCacheMutex EXCEPT !.r = @ \cup {th}]
    /\ lookup' = [lookup EXCEPT ![th].pc = "rlocked"]
    /\ UNCHANGED <<typeInfoCache, nonCacheVars>>

\* info, exists := typeInfoCache[t]
CacheRead(th) ==
    /\ lookup[th].pc = "rlocked"
    /\ lookup' = [lookup EXCEPT ![th].pc = "read",
                                ![th].info = typeInfoCache[lookup[th].t]]
    /\ UNCHANGED <<typeInfoCache, typeInfoCacheMutex, nonCacheVars>>

\* typeInfoCacheMutex.RUnlock(); if exists { return info, nil }
CacheRUnlock(th) ==
    /\ lookup[th].pc = "read"
    /\ typeInfoCacheMutex' = [typeInfoCacheMutex EXCEPT !.r = @ \ {th}]
    /\ lookup' = [lookup EXCEPT ![th] =
          IF lookup[th].info # NoNode THEN ReturnInfo(lookup[th])
          ELSE [lookup[th] EXCEPT !.pc = "parse"]]
    /\ UNCHANGED <<typeInfoCache, nonCacheVars>>

\* parseTypeInfo(t, nil) of a type with an element type, up to its call
\* GetTypeInfo(t.Elem(), nil)
CacheParseElem(th) ==
    /\ lookup[th].pc = "parse"
    /\ ElemOf(lookup[th].t) # NoType
    /\ lookup' = [lookup EXCEPT ![th].pc = "call",
                                ![th].outer = lookup[th].t,
                                ![th].t = ElemOf(lookup[th].t)]
    /\ UNCHANGED <<typeInfoCache, typeInfoCacheMutex, nonCacheVars>>

\* parseTypeInfo(t, nil), the rest: info := &TypeInfo{...}
CacheParse(th) ==
    /\ \/ lookup[th].pc = "parse" /\ ElemOf(lookup[th].t) = NoType
       \/ lookup[th].pc = "elem"
    /\ lookup' = [lookup EXCEPT ![th].pc = "parsed",
                                ![th].info = <<th, lookup[th].made + 1>>,
                                ![th].made = @ + 1]
    /\ UNCHANGED <<typeInfoCache, typeInfoCacheMutex, nonCacheVars>>

\* typeInfoCacheMutex.Lock()
CacheLock(th) ==
    /\ lookup[th].pc = "parsed"
    /\ CanLock(typeInfoCacheMutex)
    /\ typeInfoCacheMutex' = [typeInfoCacheMutex EXCEPT !.w = th]
    /\ lookup' = [lookup EXCEPT ![th].pc = "wlocked"]
    /\ UNCHANGED <<typeInfoCache, nonCacheVars>>

\* typeInfoCache[t] = info
CacheStore(th) ==
    /\ lookup[th].pc = "wlocked"
    /\ typeInfoCache' =
          [typeInfoCache EXCEPT ![lookup[th].t] = lookup[th].info]
    /\ lookup' = [lookup EXCEPT ![th].pc = "stored"]
    /\ UNCHANGED <<typeInfoCacheMutex, nonCacheVars>>

\* typeInfoCacheMutex.Unlock(); return info, nil
CacheUnlock(th) ==
    /\ lookup[th].pc = "stored"
    /\ typeInfoCacheMutex' = [typeInfoCacheMutex EXCEPT !.w = NoThread]
    /\ lookup' = [lookup EXCEPT ![th] = ReturnInfo(lookup[th])]
    /\ UNCHANGED <<typeInfoCache, nonCacheVars>>

CacheNext ==
    \/ \E th \in Threads, t \in CacheTypes : CacheCall(th, t)
    \/ \E th \in Threads : CacheRLock(th)
    \/ \E th \in Threads : CacheRead(th)
    \/ \E th \in Threads : CacheRUnlock(th)
    \/ \E th \in Threads : CacheParseElem(th)
    \/ \E th \in Threads : CacheParse(th)
    \/ \E th \in Threads : CacheLock(th)
    \/ \E th \in Threads : CacheStore(th)
    \/ \E th \in Threads : CacheUnlock(th)

(***************************************************************************)
(* flexssz: bit lists                                                      *)
(***************************************************************************)
\* the bytes without their trailing zero bytes
RECURSIVE TrimZeroBytes(_)
TrimZeroBytes(bs) ==
    IF bs # <<>> /\ bs[Len(bs)] = 0
        THEN TrimZeroBytes(SubSeq(bs, 1, Len(bs) - 1))
        ELSE bs

\* EncodeBitList(bits, maxBits): [err, out]
EncodeBitList(bits, maxBits) ==
    IF Len(bits) = 0 THEN [err |-> NoErr, out |-> <<1>>]
    ELSE IF maxBits > 0 /\ Len(bits) * 8 > maxBits
        THEN [err |-> "bitlist length exceeds maximum", out |-> <<>>]
    ELSE LET result == TrimZeroBytes(bits) IN
         IF result = <<>> THEN [err |-> NoErr, out |-> <<1>>]
         ELSE LET lastByte == result[Len(result)]
                  \* the highest set bit of lastByte, moved one position
                  \* higher, in a uint8
                  delimiterBit == (2 ^ BitsLen(lastByte)) % 256
              IN  IF delimiterBit = 0
                      THEN [err |-> NoErr, out |-> Append(result, 1)]
                      ELSE [err |-> NoErr,
                            out |-> [result EXCEPT ![Len(result)] =
                                        lastByte + delimiterBit]]

\* DecodeBitList(data, maxBits): [err, out, numBits]
DecodeBitList(data, maxBits) ==
    IF Len(data) = 0
        THEN [err |-> "empty data for bitlist", out |-> <<>>, numBits |-> 0]
    ELSE IF Len(data) = 1 /\ data[1] = 1
        THEN [err |-> NoErr, out |-> <<>>, numBits |-> 0]
    ELSE LET lastByte == data[Len(data)] IN
         IF lastByte = 0
             THEN [err |-> "bitlist missing delimiter bit", out |-> <<>>,
                   numBits |-> 0]
         ELSE LET delimiterPos == BitsLen(lastByte) - 1
                  numBits == (Len(data) - 1) * 8 + delimiterPos
              IN  IF maxBits > 0 /\ numBits > maxBits
                      THEN [err |-> "bitlist exceeds maximum", out |-> <<>>,
                            numBits |-> 0]
                      ELSE [err |-> NoErr,
                            out |-> TrimZeroBytes(
                                       [data EXCEPT ![Len(data)] =
                                           lastByte - 2 ^ delimiterPos]),
                            numBits |-> numBits]

(***************************************************************************)
(* flexssz: Marshal                                                        *)
(* Go values: a uint is a number, a bool a BOOLEAN, a string or a slice a  *)
(* sequence, a struct the tuple of its fields.  Every encode function      *)
(* returns [err, b]: the error and the builder afterwards.                 *)
(***************************************************************************)
\* binary.Write of a uint16, little-endian
PutUint16(x) == <<x % 256, x \div 256>>

RECURSIVE encodeStructToBuilder(_, _, _)
RECURSIVE encodeFields(_, _, _, _, _)
RECURSIVE encodeFixedField(_, _, _, _)
RECURSIVE encodeVariableField(_, _, _, _)
RECURSIVE encodeElements(_, _, _, _, _, _)
RECURSIVE encodeFixedElements(_, _, _, _, _)

\* encodeFixedField, after element i of the slice was encoded with result
\* r: return its error, or go on with the next element
encodeFixedElementsNext(r, v, i, elemType, elemTag) ==
    IF r.err # NoErr THEN r
    ELSE encodeFixedElements(r.b, v, i + 1, elemType, elemTag)

\* the loop over the elements of a slice with ssz-size in encodeFixedField
encodeFixedElements(b, v, i, elemType, elemTag) ==
    IF i > Len(v) THEN [err |-> NoErr, b |-> b]
    ELSE encodeFixedElementsNext(encodeFixedField(b, v[i], elemType, elemTag),
                                 v, i, elemType, elemTag)

encodeFixedField(b, v, t, tag) ==
    CASE t.Kind = "uint8" -> [err |-> NoErr, b |-> Write(b, Lit(<<v>>))]
      [] t.Kind = "uint16" -> [err |-> NoErr, b |-> Write(b, Lit(PutUint16(v)))]
      [] t.Kind = "bool" ->
            [err |-> NoErr, b |-> Write(b, Lit(IF v THEN <<1>> ELSE <<0>>))]
      [] t.Kind = "slice" ->
            \* (no field here is a bitvector)
            IF Len(tag.Size) = 0
                THEN [err |-> "variable slices must be encoded as variable fields",
                      b |-> b]
            ELSE IF t.Elem.Kind = "uint8"
                THEN IF Len(v) # tag.Size[1]
                         THEN [err |-> "slice length does not match ssz-size",
                               b |-> b]
                         ELSE [err |-> NoErr, b |-> Write(b, Lit(v))]
            ELSE encodeFixedElements(b, v, 1, t.Elem, ElemTag(tag))
      [] t.Kind = "struct" -> encodeStructToBuilder(b, v, t)
      [] OTHER -> [err |-> "unsupported type for fixed field", b |-> b]

\* encodeValue
encodeValue(b, v, t, tag) ==
    IF typeIsVariable(t, tag)
        THEN encodeVariableField(b, v, t, tag)
        ELSE encodeFixedField(b, v, t, tag)

\* encodeVariableField, after element i of the slice was encoded with
\* result r: return its error, or go on with the next element
encodeElementsNext(r, dyn, v, i, elemType, elemTag, elemTypeInfo) ==
    IF r.err # NoErr THEN [err |-> r.err, b |-> dyn]
    ELSE encodeElements(r.b, v, i + 1, elemType, elemTag, elemTypeInfo)

\* the loop over the elements of a slice in encodeVariableField
encodeElements(dyn, v, i, elemType, elemTag, elemTypeInfo) ==
    IF i > Len(v) THEN [err |-> NoErr, b |-> dyn]
    ELSE encodeElementsNext(
             IF elemTypeInfo.IsVariable
                 THEN encodeValue(dyn, v[i], elemType, elemTag)
                 ELSE encodeFixedField(dyn, v[i], elemType, elemTag),
             dyn, v, i, elemType, elemTag, elemTypeInfo)

\* encodeVariableField, once the variable context dyn was filled with
\* result r: return its error, or b = dyn.ExitDynamic()
exitDynamicInto(r, b) ==
    IF r.err # NoErr THEN [err |-> r.err, b |-> b]
    ELSE [err |-> NoErr, b |-> ExitDynamic(r.b, b)]

encodeVariableField(b, v, t, tag) ==
    CASE t.Kind = "string" -> [err |-> NoErr, b |-> EncodeBytes(b, Lit(v))]
      [] t.Kind = "slice" ->
            IF tag.MaxList > 0 /\ Len(v) > tag.MaxList
                THEN [err |-> "slice length exceeds limit", b |-> b]
            ELSE IF t.Elem.Kind = "uint8" THEN
                IF tag.FieldType = "bitlist"
                    THEN LET e == EncodeBitList(v, tag.MaxList) IN
                         IF e.err # NoErr
                             THEN [err |-> "error encoding bitlist", b |-> b]
                             ELSE [err |-> NoErr,
                                   b |-> EncodeBytes(b, Lit(e.out))]
                    ELSE [err |-> NoErr, b |-> EncodeBytes(b, Lit(v))]
            ELSE exitDynamicInto(
                     encodeElements(NewMemory, v, 1, t.Elem, ElemTag(tag),
                                    GetTypeInfo(t.Elem, ElemTag(tag))),
                     b)
      [] t.Kind = "struct" ->
            exitDynamicInto(encodeStructToBuilder(NewMemory, v, t), b)
      [] OTHER -> [err |-> "unsupported type for variable field", b |-> b]

\* encodeStructToBuilder, after field i was encoded with result r: return
\* its error, or go on with the next field
encodeFieldsNext(r, b, v, t, fields, i) ==
    IF r.err # NoErr THEN [err |-> r.err, b |-> b]
    ELSE encodeFields(r.b, v, t, fields, i + 1)

\* the loop over typeInfo.Fields in encodeStructToBuilder
encodeFields(b, v, t, fields, i) ==
    IF i > Len(fields) THEN [err |-> NoErr, b |-> b]
    ELSE encodeFieldsNext(
             IF fields[i].Type.IsVariable
                 THEN encodeVariableField(b, v[fields[i].Index],
                          t.Fields[fields[i].Index].Type, fields[i].Type.Tag)
                 ELSE encodeFixedField(b, v[fields[i].Index],
                          t.Fields[fields[i].Index].Type, fields[i].Type.Tag),
             b, v, t, fields, i)

encodeStructToBuilder(b, v, t) ==
    encodeFields(b, v, t, GetTypeInfo(t, EmptyTag).Fields, 1)

\* encodeValueToBuilder of a struct value
encodeValueToBuilder(b, v, t) == encodeStructToBuilder(b, v, t)

\* buf.Bytes(): the bytes of the chunks written
RECURSIVE BufBytes(_)
BufBytes(chunks) ==
    IF chunks = <<>> THEN <<>>
    ELSE Head(chunks).bytes \o BufBytes(Tail(chunks))

\* Marshal(v) for v of type t: [err, bytes]
Marshal(v, t) ==
    LET r == encodeValueToBuilder(NewMemory, v, t) IN
    IF r.err # NoErr THEN [err |-> r.err, bytes |-> <<>>]
    ELSE [err |-> NoErr, bytes |-> BufBytes(Finish(r.b))]

(***************************************************************************)
(* flexssz: Decoder and DecodeStruct                                       *)
(* A Decoder is [xs, cur].  Every decode function returns [err, d, v]: the *)
(* error, the decoder afterwards and the value stored into the             *)
(* destination.                                                            *)
(***************************************************************************)
NewDecoder(xs) == [xs |-> xs, cur |-> 0]
Remaining(d) == SubSeq(d.xs, d.cur + 1, Len(d.xs))

\* a Go panic (make([]byte, n) with n < 0)
DecodePanic == "panic: makeslice: len out of range"
\* a Go panic (index out of range)
IndexPanic == "panic: index out of range"

\* a Read that on underflow hands out what is left and moves to the end
ReadToEnd(d, n) ==
    IF d.cur = Len(d.xs) THEN [err |-> "EOF", d |-> d, o |-> <<>>]
    ELSE IF Len(d.xs) - d.cur < n
        THEN [err |-> "ssz: unexpected EOF",
              d |-> [d EXCEPT !.cur = Len(d.xs)], o |-> Remaining(d)]
    ELSE [err |-> NoErr,
          d |-> [d EXCEPT !.cur = d.cur + n],
          o |-> SubSeq(d.xs, d.cur + 1, d.cur + n)]

\* Decoder.Read of len(o) = n bytes: [err, d, o]
Read(d, n) ==
    IF d.cur = Len(d.xs) THEN [err |-> "EOF", d |-> d, o |-> <<>>]
    ELSE IF Len(d.xs) - d.cur < n
        THEN [err |-> "ssz: unexpected EOF", d |-> d, o |-> <<>>]
    ELSE [err |-> NoErr,
          d |-> [d EXCEPT !.cur = d.cur + n],
          o |-> SubSeq(d.xs, d.cur + 1, d.cur + n)]

\* Decoder.ReadN
ReadN(d, n) ==
    IF n < 0 THEN [err |-> DecodePanic, d |-> d, o |-> <<>>]
    ELSE Read(d, n)

\* Decoder.ReadAll
ReadAll(d) ==
    IF Len(Remaining(d)) = 0 THEN [err |-> NoErr, d |-> d, o |-> <<>>]
    ELSE Read(d, Len(Remaining(d)))

\* the value of the bytes r.o read: little-endian (binary.Read)
LittleEndian(r) ==
    [err |-> r.err, d |-> r.d,
     v |-> IF r.err # NoErr THEN 0
           ELSE IF Len(r.o) = 1 THEN r.o[1]
           ELSE IF Len(r.o) = 2 THEN r.o[1] + 256 * r.o[2]
           ELSE r.o[1] + 256 * r.o[2] + 65536 * r.o[3] + 16777216 * r.o[4]]

\* Decoder.ReadUint8 / ReadUint16 / ReadUint32: binary.Read through
\* io.ReadFull, which hands back the error of Read
ReadUint8(d) == LittleEndian(Read(d, 1))
ReadUint16(d) == LittleEndian(Read(d, 2))
ReadUint32(d) == LittleEndian(Read(d, 4))
ReadOffset(d) == ReadUint32(d)

\* ScanBool on the byte r.o read
ScanBool(r) == [err |-> r.err, d |-> r.d, v |-> r.err = NoErr /\ r.o[1] = 1]
\* Decoder.ReadBool
ReadBool(d) == ScanBool(ReadN(d, 1))

\* uint32(a) - uint32(b) as an int, for a, b < 2^31: a wrapped difference is
\* 2^32 - (b - a), which is more than 2^31 - 1, the size it is given here
SubUint32(a, b) == IF a >= b THEN a - b ELSE 2147483647

\* the zero value of a Go type: the fresh destination
RECURSIVE ZeroValue(_)
ZeroValue(t) ==
    CASE t.Kind \in {"uint8", "uint16"} -> 0
      [] t.Kind = "bool" -> FALSE
      [] t.Kind = "struct" ->
            [i \in 1..Len(t.Fields) |-> ZeroValue(t.Fields[i].Type)]
      [] OTHER -> <<>>

RECURSIVE decodeStructFromDecoder(_, _)
RECURSIVE DecodeContainerFixed(_, _, _, _, _, _)
RECURSIVE DecodeContainerVariable(_, _, _, _, _, _)
RECURSIVE decodeFixedField(_, _, _)
RECURSIVE decodeVariableField(_, _, _)
RECURSIVE decodeVariableElements(_, _, _, _, _, _)
RECURSIVE decodeFixedElements(_, _, _, _, _)
RECURSIVE readOffsets(_, _, _)

decodeFixedField(d, t, info) ==
    CASE info.Type = "uint8" -> ReadUint8(d)
      [] info.Type = "uint16" -> ReadUint16(d)
      [] info.Type = "boolean" -> ReadBool(d)
      [] info.Type = "container" -> decodeStructFromDecoder(d, t)
      [] OTHER -> [err |-> "unsupported SSZ type for fixed field", d |-> d,
                   v |-> ZeroValue(t)]

\* decodeValue
decodeValue(d, t, info) ==
    IF info.IsVariable THEN decodeVariableField(d, t, info)
    ELSE decodeFixedField(d, t, info)

decodeString(d) ==
    LET r == ReadAll(d) IN [err |-> r.err, d |-> r.d, v |-> r.o]

decodeByteSlice(d, info) ==
    LET r == ReadAll(d) IN
    IF r.err # NoErr THEN [err |-> r.err, d |-> r.d, v |-> <<>>]
    ELSE IF info.Tag.MaxList > 0 /\ Len(r.o) > info.Tag.MaxList
        THEN [err |-> "slice length exceeds limit", d |-> r.d, v |-> <<>>]
    ELSE [err |-> NoErr, d |-> r.d, v |-> r.o]

decodeBitList(d, info) ==
    LET r == ReadAll(d)
        b == DecodeBitList(r.o, info.Tag.MaxList)
    IN  IF r.err # NoErr THEN [err |-> r.err, d |-> r.d, v |-> <<>>]
        ELSE IF b.err # NoErr
            THEN [err |-> "error decoding bitlist", d |-> r.d, v |-> <<>>]
        ELSE [err |-> NoErr, d |-> r.d, v |-> b.out]

\* offsets[i] = r.v in front of the offsets read after it
consOffset(r, rest) ==
    [err |-> rest.err, d |-> rest.d, offsets |-> <<r.v>> \o rest.offsets]
\* the loop reading offsets, after offsets[i] was read with result r
readOffsetsNext(r, i, numElements) ==
    IF r.err # NoErr THEN [err |-> r.err, d |-> r.d, offsets |-> <<>>]
    ELSE consOffset(r, readOffsets(r.d, i + 1, numElements))
\* the loop of decodeVariableElementSlice reading offsets[i..numElements-1]
\* (0-based): [err, d, offsets]
readOffsets(d, i, numElements) ==
    IF i >= numElements THEN [err |-> NoErr, d |-> d, offsets |-> <<>>]
    ELSE readOffsetsNext(ReadUint32(d), i, numElements)

\* element i decoded with result e from the bytes elemData: its error, or
\* slice[i] set and the loop going on
storeElement(e, elemData, i, offsets, elemType, elemTypeInfo, slice) ==
    IF e.err # NoErr THEN [err |-> e.err, d |-> elemData.d, v |-> slice]
    ELSE decodeVariableElements(elemData.d, i + 1, offsets, elemType,
                                elemTypeInfo, [slice EXCEPT ![i + 1] = e.v])
\* the bytes elemData of element i, as d.ReadN(size) returned them
decodeElementData(elemData, i, offsets, elemType, elemTypeInfo, slice) ==
    IF elemData.err # NoErr
        THEN [err |-> elemData.err, d |-> elemData.d, v |-> slice]
    ELSE storeElement(decodeValue(NewDecoder(elemData.o), elemType,
                                  elemTypeInfo),
                      elemData, i, offsets, elemType, elemTypeInfo, slice)
\* the size of element i (0-based) in decodeVariableElementSlice
elementSize(d, i, offsets) ==
    IF i < Len(offsets) - 1
        THEN SubUint32(offsets[i + 2], offsets[i + 1])
        ELSE (Len(d.xs) - 4 * Len(offsets))
             - (offsets[i + 1] - 4 * Len(offsets))
\* the loop of decodeVariableElementSlice decoding the elements from i
\* (0-based) on: [err, d, v]
decodeVariableElements(d, i, offsets, elemType, elemTypeInfo, slice) ==
    IF i >= Len(offsets) THEN [err |-> NoErr, d |-> d, v |-> slice]
    ELSE decodeElementData(ReadN(d, elementSize(d, i, offsets)), i, offsets,
                           elemType, elemTypeInfo, slice)

\* v.Set(slice) at the end of decodeVariableElementSlice: on an error the
\* destination keeps its zero value
setSlice(r) ==
    IF r.err # NoErr THEN [err |-> r.err, d |-> r.d, v |-> <<>>] ELSE r
\* decodeVariableElementSlice once the offsets after the first were read
decodeWithOffsets(more, firstOffset, numElements, t, info, elemTypeInfo) ==
    IF more.err # NoErr THEN [err |-> more.err, d |-> more.d, v |-> <<>>]
    ELSE IF info.Tag.MaxList > 0 /\ numElements > info.Tag.MaxList
        THEN [err |-> "slice length exceeds limit", d |-> more.d, v |-> <<>>]
    ELSE setSlice(decodeVariableElements(more.d, 0,
                      <<firstOffset>> \o more.offsets, t.Elem, elemTypeInfo,
                      [i \in 1..numElements |-> ZeroValue(t.Elem)]))
\* decodeVariableElementSlice once the first offset was read
decodeFromFirstOffset(first, d, t, info, elemTypeInfo) ==
    IF first.err # NoErr THEN [err |-> first.err, d |-> d, v |-> <<>>]
    ELSE IF first.v = 0 THEN [err |-> NoErr, d |-> first.d, v |-> <<>>]
    ELSE IF first.v \div 4 = 0
        \* offsets[0] = firstOffset on a slice of no element
        THEN [err |-> IndexPanic, d |-> first.d, v |-> <<>>]
    ELSE decodeWithOffsets(readOffsets(first.d, 1, first.v \div 4), first.v,
                           first.v \div 4, t, info, elemTypeInfo)
\* decodeVariableElementSlice
decodeVariableElementSlice(d, t, info, elemTypeInfo) ==
    IF Len(Remaining(d)) = 0 THEN [err |-> NoErr, d |-> d, v |-> <<>>]
    ELSE IF Len(Remaining(d)) < 4
        THEN [err |-> "invalid data for variable-size slice", d |-> d,
              v |-> <<>>]
    ELSE decodeFromFirstOffset(ReadUint32(d), d, t, info, elemTypeInfo)

\* element e in front of the elements decoded after it
consElement(e, rest) ==
    [err |-> rest.err, d |-> rest.d,
     v |-> IF rest.err = NoErr THEN <<e.v>> \o rest.v ELSE <<>>]
\* the loop of decodeFixedElementSlice, after element i was decoded
decodeFixedElementsNext(e, i, numElements, elemType, elemTypeInfo) ==
    IF e.err # NoErr THEN [err |-> e.err, d |-> e.d, v |-> <<>>]
    ELSE consElement(e, decodeFixedElements(e.d, i + 1, numElements,
                                            elemType, elemTypeInfo))
\* the loop of decodeFixedElementSlice
decodeFixedElements(d, i, numElements, elemType, elemTypeInfo) ==
    IF i >= numElements THEN [err |-> NoErr, d |-> d, v |-> <<>>]
    ELSE decodeFixedElementsNext(decodeFixedField(d, elemType, elemTypeInfo),
                                 i, numElements, elemType, elemTypeInfo)

\* decodeFixedElementSlice
decodeFixedElementSlice(d, t, info, elemTypeInfo) ==
    IF elemTypeInfo.FixedSize <= 0
        THEN [err |-> "fixed element type has invalid size", d |-> d,
              v |-> <<>>]
    ELSE IF Len(Remaining(d)) % elemTypeInfo.FixedSize # 0
        THEN [err |-> "invalid data size for slice", d |-> d, v |-> <<>>]
    ELSE IF /\ info.Tag.MaxList > 0
            /\ Len(Remaining(d)) \div elemTypeInfo.FixedSize > info.Tag.MaxList
        THEN [err |-> "slice length exceeds limit", d |-> d, v |-> <<>>]
    ELSE decodeFixedElements(d, 0,
             Len(Remaining(d)) \div elemTypeInfo.FixedSize, t.Elem,
             elemTypeInfo)

decodeSlice(d, t, info) ==
    IF GetTypeInfo(t.Elem, EmptyTag).IsVariable
        THEN decodeVariableElementSlice(d, t, info,
                                        GetTypeInfo(t.Elem, EmptyTag))
        ELSE decodeFixedElementSlice(d, t, info,
                                     GetTypeInfo(t.Elem, EmptyTag))

\* decodeList
decodeList(d, t, info) ==
    IF t.Kind = "string" THEN decodeString(d)
    ELSE IF t.Kind # "slice"
        THEN [err |-> "cannot decode list", d |-> d, v |-> ZeroValue(t)]
    ELSE IF t.Elem.Kind = "uint8" THEN decodeByteSlice(d, info)
    ELSE decodeSlice(d, t, info)

\* decodeVariableContainer
decodeVariableContainer(d, t) ==
    IF t.Kind = "struct" THEN decodeStructFromDecoder(d, t)
    ELSE [err |-> "cannot decode container", d |-> d, v |-> ZeroValue(t)]

decodeVariableField(d, t, info) ==
    CASE info.Type = "list" -> decodeList(d, t, info)
      [] info.Type = "bitlist" -> decodeBitList(d, info)
      [] info.Type = "container" -> decodeVariableContainer(d, t)
      [] OTHER -> [err |-> "unsupported SSZ type for variable field",
                   d |-> d, v |-> ZeroValue(t)]

\* what the first pass of DecodeContainer holds: [err, d, v, offsets,
\* variableDecoders (the indices of the variable fields)], and invoked: the
\* struct fields whose decode function was called so far, in call order
FirstPass(err, d, v, acc) ==
    [err |-> err, d |-> d, v |-> v, offsets |-> acc.offsets,
     variableDecoders |-> acc.variableDecoders, invoked |-> acc.invoked,
     left |-> FALSE]
\* first pass, after elem.Fixed(d) of the fixed field i returned r
fixedFieldDecoded(r, t, fields, i, v, acc) ==
    IF r.err # NoErr
        THEN FirstPass(r.err, r.d, v,
                 [acc EXCEPT !.invoked = Append(@, fields[i].Index)])
    ELSE DecodeContainerFixed(r.d, t, fields, i + 1,
             [v EXCEPT ![fields[i].Index] = r.v],
             [acc EXCEPT !.invoked = Append(@, fields[i].Index)])
\* first pass, after the offset of the variable field i was read
offsetRead(r, t, fields, i, v, acc) ==
    IF r.err # NoErr THEN FirstPass(r.err, r.d, v, acc)
    ELSE DecodeContainerFixed(r.d, t, fields, i + 1, v,
             [offsets |-> Append(acc.offsets, r.v),
              variableDecoders |-> Append(acc.variableDecoders, i),
              invoked |-> acc.invoked])
\* Decoder.DecodeContainer, first pass from element i on: the fixed fields
\* are decoded, the offsets of the variable fields collected
DecodeContainerFixed(d, t, fields, i, v, acc) ==
    IF i > Len(fields) THEN FirstPass(NoErr, d, v, acc)
    ELSE IF ~fields[i].Type.IsVariable
        THEN fixedFieldDecoded(
                 decodeFixedField(d, t.Fields[fields[i].Index].Type,
                                  fields[i].Type),
                 t, fields, i, v, acc)
    ELSE offsetRead(ReadOffset(d), t, fields, i, v, acc)

\* the fields invoked once the second pass has called the decoders of the
\* first k variable fields
invokedAfter(p, fields, k) ==
    p.invoked \o [j \in 1..k |-> fields[p.variableDecoders[j]].Index]
\* the first pass of a container stopped short of where its variable part
\* starts (of the end of the bytes when it has no variable field)
Gap(p) ==
    IF Len(p.offsets) > 0 THEN p.d.cur # p.offsets[1]
    ELSE p.d.cur < Len(p.d.xs)
\* the decode function that returned r left bytes of its decoder unread: a
\* container reads its variable part through decoders of its own, any other
\* function reads up to its cursor
Unconsumed(r) ==
    IF "left" \in DOMAIN r THEN r.left \/ r.gap
    ELSE r.d.cur < Len(r.d.xs)
\* second pass, after decoder(fieldDecoder) of the variable field i
\* returned r
variableFieldDecoded(r, d, t, fields, p, i, v) ==
    IF r.err # NoErr
        THEN [err |-> r.err, d |-> d, v |-> v,
              invoked |-> invokedAfter(p, fields, i),
              left |-> p.left, gap |-> Gap(p)]
    ELSE DecodeContainerVariable(d, t, fields,
             [p EXCEPT !.left = @ \/ Unconsumed(r)], i + 1,
             [v EXCEPT ![fields[p.variableDecoders[i]].Index] = r.v])
\* second pass: the variable field i, whose bytes are xs[start:end]
decodeBetween(start, end, d, t, fields, p, i, v) ==
    IF start > Len(d.xs) \/ end > Len(d.xs) \/ start > end
        THEN [err |-> "invalid offset", d |-> d, v |-> v,
              invoked |-> invokedAfter(p, fields, i - 1),
              left |-> p.left, gap |-> Gap(p)]
    ELSE variableFieldDecoded(
             decodeVariableField(
                 NewDecoder(SubSeq(d.xs, start + 1, end)),
                 t.Fields[fields[p.variableDecoders[i]].Index].Type,
                 fields[p.variableDecoders[i]].Type),
             d, t, fields, p, i, v)
\* Decoder.DecodeContainer, second pass from variable field i on: [err, d, v]
DecodeContainerVariable(d, t, fields, p, i, v) ==
    IF i > Len(p.variableDecoders)
        THEN [err |-> NoErr, d |-> d, v |-> v,
              invoked |-> invokedAfter(p, fields, i - 1),
              left |-> p.left, gap |-> Gap(p)]
    ELSE decodeBetween(p.offsets[i],
                       IF i + 1 <= Len(p.offsets) THEN p.offsets[i + 1]
                       ELSE Len(d.xs),
                       d, t, fields, p, i, v)

\* DecodeContainer, p being what the first pass returned
secondPass(p, t, fields) ==
    IF p.err # NoErr
        THEN [err |-> p.err, d |-> p.d, v |-> p.v, invoked |-> p.invoked,
              left |-> FALSE, gap |-> FALSE]
    ELSE DecodeContainerVariable(p.d, t, fields, p, 1, p.v)
\* Decoder.DecodeContainer over the elements decodeStructFromDecoder builds
DecodeContainer(d, t, fields) ==
    secondPass(DecodeContainerFixed(d, t, fields, 1, ZeroValue(t),
                   [offsets |-> <<>>, variableDecoders |-> <<>>,
                    invoked |-> <<>>]),
               t, fields)

decodeStructFromDecoder(d, t) ==
    DecodeContainer(d, t, GetTypeInfo(t, EmptyTag).Fields)

\* DecodeStruct(data, &v) with v a fresh struct of type t: [err, v], the
\* fields of v in the order their decode functions were called, and whether
\* the decode function of a variable field returned nil with bytes unread
DecodeStruct(data, t) ==
    LET r == decodeStructFromDecoder(NewDecoder(data), t) IN
    [err |-> r.err, v |-> r.v, invoked |-> r.invoked, left |-> r.left]

(***************************************************************************)
(* The SSZ serialization of the types in use, as the format defines it:    *)
(* the yardstick for "a valid SSZ byte string of type T".  An SSZ value is *)
(* a Go value, except that a bitlist is the sequence of its bits.          *)
(***************************************************************************)
IsBitlist(field) == field.ssz = "bitlist"

RECURSIVE SszIsVariable(_)
SszIsVariable(t) ==
    CASE t.Kind \in {"string", "slice"} -> TRUE
      [] t.Kind = "struct" ->
            \E i \in 1..Len(t.Fields) : SszIsVariable(t.Fields[i].Type)
      [] OTHER -> FALSE

\* the bytes packing the bits, least significant bit first
RECURSIVE PackBits(_)
PackBits(bits) ==
    IF bits = <<>> THEN <<>>
    ELSE LET n == Min(8, Len(bits))
             RECURSIVE byte(_)
             byte(i) == IF i > n THEN 0 ELSE bits[i] * 2 ^ (i - 1) + byte(i + 1)
         IN  <<byte(1)>> \o PackBits(SubSeq(bits, n + 1, Len(bits)))

\* a bitlist: its bits and the delimiter bit after them
SszBitlist(bits) == PackBits(Append(bits, 1))

RECURSIVE Concat(_)
Concat(ss) == IF ss = <<>> THEN <<>> ELSE Head(ss) \o Concat(Tail(ss))

RECURSIVE SszSerialize(_, _, _)
\* the parts of a sequence of values: the fixed slots of the fixed-size
\* ones, and offsets followed by the payloads for the variable-size ones
SszParts(parts, variable) ==
    LET n == Len(parts)
        slot(i) == IF variable[i] THEN 4 ELSE Len(parts[i])
        RECURSIVE fixedLen(_)
        fixedLen(i) == IF i = 0 THEN 0 ELSE fixedLen(i - 1) + slot(i)
        RECURSIVE payloadBefore(_)
        payloadBefore(i) ==
            IF i = 1 THEN 0
            ELSE payloadBefore(i - 1)
                 + (IF variable[i - 1] THEN Len(parts[i - 1]) ELSE 0)
    IN  Concat([i \in 1..n |->
                  IF variable[i]
                      THEN PutUint32(GoInt(fixedLen(n) + payloadBefore(i)))
                      ELSE parts[i]])
        \o Concat([i \in 1..n |-> IF variable[i] THEN parts[i] ELSE <<>>])

SszSerialize(x, t, bitlist) ==
    CASE t.Kind = "uint8" -> <<x>>
      [] t.Kind = "uint16" -> PutUint16(x)
      [] t.Kind = "bool" -> IF x THEN <<1>> ELSE <<0>>
      [] t.Kind = "string" -> x
      [] t.Kind = "slice" ->
            IF bitlist THEN SszBitlist(x)
            ELSE IF t.Elem.Kind = "uint8" THEN x
            ELSE SszParts([i \in 1..Len(x) |-> SszSerialize(x[i], t.Elem, FALSE)],
                          [i \in 1..Len(x) |-> SszIsVariable(t.Elem)])
      [] t.Kind = "struct" ->
            SszParts([i \in 1..Len(t.Fields) |->
                         SszSerialize(x[i], t.Fields[i].Type,
                                      IsBitlist(t.Fields[i]))],
                     [i \in 1..Len(t.Fields) |->
                         SszIsVariable(t.Fields[i].Type)])

(***************************************************************************)
(* Marshal and DecodeStruct over a family of struct types                  *)
(***************************************************************************)
\* bounds of the codec runs
MaxListLen == 2        \* ssz-max of the lists, and the longest list value
MaxBitlistBits == 12   \* ssz-max of the bitlist
MaxOffset == 10        \* the largest value an offset of the input is set to

\* type Mixed struct { A uint8; S string; F bool; B []byte `ssz-max:"2"` }
Mixed ==
    GoStruct(<<StructField("A", GoUint8, "", 0),
               StructField("S", GoString, "", 0),
               StructField("F", GoBool, "", 0),
               StructField("B", GoSlice(GoUint8), "", MaxListLen)>>)
\* type Strings struct { L []string `ssz-max:"2"` }
Strings == GoStruct(<<StructField("L", GoSlice(GoString), "", MaxListLen)>>)
\* type Numbers struct { N []uint16 `ssz-max:"2"`; A uint8 }
Numbers ==
    GoStruct(<<StructField("N", GoSlice(GoUint16), "", MaxListLen),
               StructField("A", GoUint8, "", 0)>>)
\* type Bits struct { Bits []byte `ssz:"bitlist" ssz-max:"12"` }
Bits ==
    GoStruct(<<StructField("Bits", GoSlice(GoUint8), "bitlist",
                           MaxBitlistBits)>>)
\* type Inner struct { F bool; S string }
Inner ==
    GoStruct(<<StructField("F", GoBool, "", 0),
               StructField("S", GoString, "", 0)>>)
\* type Pair struct { A uint8; F bool }
Pair ==
    GoStruct(<<StructField("A", GoUint8, "", 0),
               StructField("F", GoBool, "", 0)>>)
\* type Nested struct { In Inner; A uint8; P Pair }
Nested ==
    GoStruct(<<StructField("In", Inner, "", 0),
               StructField("A", GoUint8, "", 0),
               StructField("P", Pair, "", 0)>>)
\* type Items struct { L []Inner `ssz-max:"2"` }
Items == GoStruct(<<StructField("L", GoSlice(Inner), "", MaxListLen)>>)

CodecTypes == <<Mixed, Strings, Numbers, Bits, Nested, Items>>

\* the tuples whose i-th component is in sets[i]
RECURSIVE Product(_)
Product(sets) ==
    IF sets = <<>> THEN {<<>>}
    ELSE {<<x>> \o rest : x \in Head(sets), rest \in Product(Tail(sets))}

\* the sequences of at most n elements of S
RECURSIVE SeqsUpTo(_, _)
SeqsUpTo(S, n) ==
    IF n = 0 THEN {<<>>}
    ELSE SeqsUpTo(S, n - 1)
         \cup {Append(s, x) : s \in {q \in SeqsUpTo(S, n - 1) : Len(q) = n - 1},
                              x \in S}

\* the []byte values a Go bitlist field is given
GoBitlists == {<<>>, <<1>>, <<15>>, <<15, 0>>, <<255>>}
\* the bitlists of the format: sequences of bits
SszBitlists ==
    {<<>>, <<1>>, <<0>>, <<1, 1, 1, 1>>, <<0, 0, 0, 0>>,
     <<1, 1, 1, 1, 1, 1, 1, 1>>}

\* the values of a type: Go values (ssz = FALSE) or values of the format
RECURSIVE ValuesOf(_, _, _)
ValuesOf(t, bitlist, ssz) ==
    CASE t.Kind = "uint8" -> {0, 7}
      [] t.Kind = "uint16" -> {0, 258}
      [] t.Kind = "bool" -> BOOLEAN
      [] t.Kind = "string" -> {<<>>, <<97>>}
      [] t.Kind = "slice" ->
            IF bitlist THEN (IF ssz THEN SszBitlists ELSE GoBitlists)
            ELSE IF t.Elem.Kind = "uint8" THEN {<<>>, <<1>>, <<0, 1>>}
            ELSE SeqsUpTo(ValuesOf(t.Elem, FALSE, ssz), MaxListLen)
      [] t.Kind = "struct" ->
            Product([i \in 1..Len(t.Fields) |->
                        ValuesOf(t.Fields[i].Type, IsBitlist(t.Fields[i]), ssz)])

GoValues(t) == ValuesOf(t, FALSE, FALSE)

\* the valid SSZ byte strings of type t
ValidWires(t) == {SszSerialize(x, t, FALSE) : x \in ValuesOf(t, FALSE, TRUE)}

\* where the offsets of the variable fields stand in the fixed part of t
\* (0-based), and the size of the fixed part
RECURSIVE SlotsFrom(_, _, _)
SlotsFrom(fields, i, at) ==
    IF i > Len(fields) THEN [slots |-> <<>>, size |-> at]
    ELSE IF fields[i].Type.IsVariable
        THEN LET r == SlotsFrom(fields, i + 1, at + 4) IN
             [slots |-> <<at>> \o r.slots, size |-> r.size]
        ELSE SlotsFrom(fields, i + 1, at + fields[i].Type.FixedSize)
FixedPart(t) == SlotsFrom(GetTypeInfo(t, EmptyTag).Fields, 1, 0)

\* the bytes b with the offset at slot set to o
PatchOffset(b, slot, o) ==
    [i \in 1..Len(b) |->
        IF i > slot /\ i <= slot + 4 THEN PutUint32(GoInt(o))[i - slot]
        ELSE b[i]]

\* the byte strings handed to DecodeStruct: the valid ones (valid: TRUE), and
\* the valid ones with one offset of the outer container set to another value
WireInputs(t) ==
    LET wires == ValidWires(t)
        slots == FixedPart(t).slots
        patched == {PatchOffset(b, slots[j], o) :
                       b \in wires, j \in 1..Len(slots), o \in 0..MaxOffset}
    IN  {[b |-> b, valid |-> TRUE] : b \in wires}
        \cup {[b |-> b, valid |-> FALSE] : b \in patched \ wires}

NoInput == [kind |-> "none", typ |-> 0, v |-> <<>>, b |-> <<>>, valid |-> FALSE]
CodecAt(phase, val, bytes, err) ==
    [phase |-> phase, val |-> val, bytes |-> bytes, err |-> err,
     invoked |-> <<>>, left |-> FALSE]

\* a value to marshal, or bytes to unmarshal
CodecInit ==
    \E n \in 1..Len(CodecTypes) :
        \/ \E v \in GoValues(CodecTypes[n]) :
              /\ input = [kind |-> "value", typ |-> n, v |-> v, b |-> <<>>,
                          valid |-> FALSE]
              /\ codec = CodecAt("start", v, <<>>, NoErr)
        \/ \E w \in WireInputs(CodecTypes[n]) :
              /\ input = [kind |-> "wire", typ |-> n,
                          v |-> ZeroValue(CodecTypes[n]), b |-> w.b,
                          valid |-> w.valid]
              /\ codec = CodecAt("start", ZeroValue(CodecTypes[n]), w.b, NoErr)

\* the codec as the other specifications leave it
CodecIdle ==
    /\ input = NoInput
    /\ codec = CodecAt("idle", <<>>, <<>>, NoErr)

\* data, err := Marshal(&v): of the input value, or of the value decoded
\* from the input bytes
CodecMarshal ==
    /\ \/ input.kind = "value" /\ codec.phase = "start"
       \/ input.kind = "wire" /\ codec.phase = "decoded" /\ codec.err = NoErr
    /\ LET r == Marshal(codec.val, CodecTypes[input.typ]) IN
         codec' = CodecAt("marshalled", codec.val, r.bytes, r.err)
    /\ UNCHANGED <<input, nonCodecVars>>

\* err := DecodeStruct(data, &fresh): of the input bytes, or of the bytes
\* marshalled from the input value
CodecDecodeStruct ==
    /\ \/ input.kind = "wire" /\ codec.phase = "start"
       \/ input.kind = "value" /\ codec.phase = "marshalled"
            /\ codec.err = NoErr
    /\ LET r == DecodeStruct(codec.bytes, CodecTypes[input.typ]) IN
         codec' = [CodecAt("decoded", r.v, codec.bytes, r.err)
                      EXCEPT !.invoked = r.invoked, !.left = r.left]
    /\ UNCHANGED <<input, nonCodecVars>>

CodecNext ==
    \/ CodecMarshal
    \/ CodecDecodeStruct

(***************************************************************************)
(* Marshal of values whose sequences are shorter than, as long as and      *)
(* longer than the ssz-max or ssz-size of their fields                     *)
(***************************************************************************)
MaxDeclared == 2     \* the ssz-max and ssz-size of the fields

\* type Limited struct { A uint8; L []uint16 `ssz-max:"2"` }
Limited ==
    GoStruct(<<StructField("A", GoUint8, "", 0),
               MaxField("L", GoSlice(GoUint16), MaxDeclared)>>)
\* type LimitedBytes struct { B []byte `ssz-max:"2"` }
LimitedBytes == GoStruct(<<MaxField("B", GoSlice(GoUint8), MaxDeclared)>>)
\* type Empty struct { L []uint16 `ssz-max:"0"` }
Empty == GoStruct(<<MaxField("L", GoSlice(GoUint16), 0)>>)
\* type Unbounded struct { L []uint16 `ssz-max:"?"` }
Unbounded == GoStruct(<<UnboundedField("L", GoSlice(GoUint16))>>)
\* type Holder struct { F bool; L []bool `ssz-max:"2"` }
\* type Holders struct { H []Holder `ssz-max:"2"` }
Holder ==
    GoStruct(<<StructField("F", GoBool, "", 0),
               MaxField("L", GoSlice(GoBool), MaxDeclared)>>)
Holders == GoStruct(<<MaxField("H", GoSlice(Holder), MaxDeclared)>>)
\* type FixedBytes struct { H []byte `ssz-size:"2"` }
FixedBytes == GoStruct(<<SizedField("H", GoSlice(GoUint8), <<MaxDeclared>>)>>)
\* type FixedNumbers struct { V []uint16 `ssz-size:"2"`; A uint8 }
FixedNumbers ==
    GoStruct(<<SizedField("V", GoSlice(GoUint16), <<MaxDeclared>>),
               StructField("A", GoUint8, "", 0)>>)
\* type Grid struct { G [][]byte `ssz-size:"2,2"` }
Grid ==
    GoStruct(<<SizedField("G", GoSlice(GoSlice(GoUint8)),
                          <<MaxDeclared, MaxDeclared>>)>>)

MarshalTypes ==
    <<Limited, LimitedBytes, Empty, Unbounded, Holders, FixedBytes,
      FixedNumbers, Grid>>

\* the Go values of type t to marshal: every slice has at most one element
\* more than MaxDeclared
RECURSIVE MarshalValues(_)
MarshalValues(t) ==
    CASE t.Kind = "uint8" -> {7}
      [] t.Kind = "uint16" -> {0, 258}
      [] t.Kind = "bool" -> {TRUE}
      [] t.Kind = "slice" -> SeqsUpTo(MarshalValues(t.Elem), MaxDeclared + 1)
      [] t.Kind = "struct" ->
            Product([i \in 1..Len(t.Fields) |-> MarshalValues(t.Fields[i].Type)])

\* a value to marshal
MarshalInit ==
    \E n \in 1..Len(MarshalTypes) :
        \E v \in MarshalValues(MarshalTypes[n]) :
            /\ input = [kind |-> "marshal", typ |-> n, v |-> v, b |-> <<>>,
                        valid |-> FALSE]
            /\ codec = CodecAt("start", v, <<>>, NoErr)

\* data, err := Marshal(&v)
MarshalCall ==
    /\ input.kind = "marshal"
    /\ codec.phase = "start"
    /\ LET r == Marshal(codec.val, MarshalTypes[input.typ]) IN
         codec' = CodecAt("marshalled", codec.val, r.bytes, r.err)
    /\ UNCHANGED <<input, nonCodecVars>>

MarshalNext == MarshalCall

(***************************************************************************)
(* EncodeBitList / DecodeBitList on the bit-lists of at most MaxBits bits. *)
(* A caller keeps a bit-list of n bits in (n + 7) / 8 bytes (NewBitList),  *)
(* bit i in bit i % 8 of byte i / 8 (SetBit).                              *)
(***************************************************************************)
MaxBits == 9
\* the maxBits handed to EncodeBitList and DecodeBitList
BitLimits == {4, 9, 16}

RECURSIVE BitSeqs(_)
BitSeqs(n) ==
    IF n = 0 THEN {<<>>}
    ELSE BitSeqs(n - 1)
         \cup {Append(b, x) : b \in {q \in BitSeqs(n - 1) : Len(q) = n - 1},
                              x \in {0, 1}}

\* a bit-list of n <= maxBits bits to encode
BitListInit ==
    \E maxBits \in BitLimits :
        \E bits \in {b \in BitSeqs(MaxBits) : Len(b) <= maxBits} :
            /\ input = [kind |-> "bits", typ |-> maxBits, v |-> bits,
                        b |-> PackBits(bits), valid |-> TRUE]
            /\ codec = CodecAt("start", <<>>, <<>>, NoErr)

\* encoded, err := EncodeBitList(bits, maxBits)
BitListEncode ==
    /\ input.kind = "bits"
    /\ codec.phase = "start"
    /\ LET e == EncodeBitList(input.b, input.typ) IN
         codec' = CodecAt("encoded", <<>>, e.out, e.err)
    /\ UNCHANGED <<input, nonCodecVars>>

\* decoded, numBits, err := DecodeBitList(encoded, maxBits)
BitListDecode ==
    /\ input.kind = "bits"
    /\ codec.phase = "encoded"
    /\ codec.err = NoErr
    /\ LET r == DecodeBitList(codec.bytes, input.typ) IN
         codec' = CodecAt("decoded", [out |-> r.out, numBits |-> r.numBits],
                          codec.bytes, r.err)
    /\ UNCHANGED <<input, nonCodecVars>>

BitListNext ==
    \/ BitListEncode
    \/ BitListDecode

(***************************************************************************)
(* The reads of a Decoder, called in any order on one buffer: decoder.go    *)
(***************************************************************************)
MaxBufLen == 5          \* buffers of 0 .. MaxBufLen bytes
MaxRead == 6            \* Read and ReadN are asked for 0 .. MaxRead bytes

\* d := NewDecoder(xs)
DecoderInit ==
    \E n \in 0..MaxBufLen : \E xs \in [1..n -> {0, 1}] :
        /\ input = [kind |-> "buffer", typ |-> 0, v |-> <<>>, b |-> xs,
                    valid |-> TRUE]
        /\ codec = CodecAt("reading",
                           [cur |-> 0, before |-> 0, need |-> 0, op |-> "NewDecoder"],
                           xs, NoErr)

Decoder == [xs |-> codec.bytes, cur |-> codec.val.cur]

\* the decoder after the read op that asked for need bytes and returned r
AfterRead(r, need, op) ==
    CodecAt("reading", [cur |-> r.d.cur, before |-> codec.val.cur,
                        need |-> need, op |-> op], r.d.xs, r.err)

\* n, err := d.Read(make([]byte, n))
DecoderRead(n) ==
    /\ input.kind = "buffer"
    /\ codec' = AfterRead(Read(Decoder, n), n, "Read")
    /\ UNCHANGED <<input, nonCodecVars>>

\* o, err := d.ReadN(n)
DecoderReadN(n) ==
    /\ input.kind = "buffer"
    /\ codec' = AfterRead(ReadN(Decoder, n), n, "ReadN")
    /\ UNCHANGED <<input, nonCodecVars>>

\* b, err := d.ReadBool()
DecoderReadBool ==
    /\ input.kind = "buffer"
    /\ codec' = AfterRead(ReadBool(Decoder), 1, "ReadBool")
    /\ UNCHANGED <<input, nonCodecVars>>

\* i, err := d.ReadUint8()
DecoderReadUint8 ==
    /\ input.kind = "buffer"
    /\ codec' = AfterRead(ReadUint8(Decoder), 1, "ReadUint8")
    /\ UNCHANGED <<input, nonCodecVars>>

\* i, err := d.ReadUint16()
DecoderReadUint16 ==
    /\ input.kind = "buffer"
    /\ codec' = AfterRead(ReadUint16(Decoder), 2, "ReadUint16")
    /\ UNCHANGED <<input, nonCodecVars>>

\* i, err := d.ReadUint32()
DecoderReadUint32 ==
    /\ input.kind = "buffer"
    /\ codec' = AfterRead(ReadUint32(Decoder), 4, "ReadUint32")
    /\ UNCHANGED <<input, nonCodecVars>>

\* j, err := d.ReadOffset()
DecoderReadOffset ==
    /\ input.kind = "buffer"
    /\ codec' = AfterRead(ReadOffset(Decoder), 4, "ReadOffset")
    /\ UNCHANGED <<input, nonCodecVars>>

\* o, err := d.ReadAll()
DecoderReadAll ==
    /\ input.kind = "buffer"
    /\ codec' = AfterRead(ReadAll(Decoder), Len(Remaining(Decoder)), "ReadAll")
    /\ UNCHANGED <<input, nonCodecVars>>

DecoderNext ==
    \/ \E n \in 0..MaxRead : DecoderRead(n)
    \/ \E n \in 0..MaxRead : DecoderReadN(n)
    \/ DecoderReadBool
    \/ DecoderReadUint8
    \/ DecoderReadUint16
    \/ DecoderReadUint32
    \/ DecoderReadOffset
    \/ DecoderReadAll

(***************************************************************************)
(* The Merkle root functions called directly: merkle_root.go, hasher.go    *)
(***************************************************************************)
MaxChunks == 5          \* data of 1 .. MaxChunks chunks
MaxLimitLog == 4        \* leaf limits 1, 2, .. 2^MaxLimitLog

\* the arguments of one call: data (in leaves) and leafLimit
MerkleRootInit ==
    /\ tree = ZeroTree
    /\ treeHist = [computed |-> FALSE, earlyMark |-> FALSE]
    /\ \E n \in 1..MaxChunks : leaves \in [1..n -> LeafValues]
    /\ \E k \in 0..MaxLimitLog :
          /\ Shl1(k) >= Len(leaves)
          /\ treeOut = [kind |-> "args", leafLimit |-> Shl1(k)]

\* err := ComputeMerkleRootRange(data, output, leafLimit, 0)
MerkleRootRangeCall ==
    /\ treeOut.kind = "args"
    /\ LET r == ComputeMerkleRootRange(Bytes(Len(leaves) * ChunkSize, leaves),
                                       treeOut.leafLimit, 0)
       IN treeOut' = [kind |-> "root", leafLimit |-> treeOut.leafLimit,
                      err |-> r.err, out |-> r.out]
    /\ UNCHANGED <<tree, leaves, treeHist, concVars, nonTreeVars>>

MerkleRootNext == MerkleRootRangeCall

MaxDepthArg == 130      \* GetDepth is called with 0 .. MaxDepthArg

\* the argument of one call of GetDepth
GetDepthInit ==
    /\ tree = ZeroTree
    /\ leaves = <<>>
    /\ treeHist = [computed |-> FALSE, earlyMark |-> FALSE]
    /\ \E n \in 0..MaxDepthArg : treeOut = [kind |-> "n", n |-> n]

\* depth := GetDepth(n)
GetDepthCall ==
    /\ treeOut.kind = "n"
    /\ treeOut' = [kind |-> "depth", n |-> treeOut.n, depth |-> GetDepth(treeOut.n)]
    /\ UNCHANGED <<tree, leaves, treeHist, concVars, nonTreeVars>>

GetDepthNext == GetDepthCall

(***************************************************************************)
(* ComputeMerkleRootRange step by step: the scratch buffer taken from the  *)
(* pool and the slice `layer` that works in it.  Only lengths, capacities  *)
(* and the identity of the backing array are kept.                         *)
(***************************************************************************)
MaxRangeChunks == 7     \* data of 0 .. MaxRangeChunks chunks
MaxRangeLimit == 17     \* leaf limits 0 .. MaxRangeLimit
MaxStartLevel == 5      \* start levels 0 .. MaxStartLevel, and 256

\* uint8(x)
Uint8(x) == x % 256

\* a request for the data alone, without room for a pad chunk
ScratchSizeOfData(dataLen) == dataLen
\* the size asked of the pool: bufpool.Get(len(data) + 64)
ScratchSize(dataLen) == dataLen + 64

\* the length and capacity of the slice bufpool.Get(size) returns
GetSlice(size) ==
    IF size = 0 THEN GetZeroSize
    ELSE IF nextPowerOf2Index(size) >= NumPools THEN GetUnpooled(size)
    ELSE [cap |-> Shl1(nextPowerOf2Index(size)), len |-> size]

\* append(layer, chunk...): in place when the capacity suffices, and in a
\* new backing array of some larger capacity otherwise
AppendChunk(layer) ==
    IF layer.len + ChunkSize <= layer.cap
        THEN [layer EXCEPT !.len = @ + ChunkSize]
        ELSE [len |-> layer.len + ChunkSize,
              cap |-> 2 * (layer.len + ChunkSize),
              array |-> "new"]

NoCall == [kind |-> "none"]

\* the arguments of one call ComputeMerkleRootRange(data, output, leafLimit,
\* startLevel)
RangeInit ==
    /\ tree = ZeroTree
    /\ leaves = <<>>
    /\ treeHist = [computed |-> FALSE, earlyMark |-> FALSE]
    /\ \E n \in 0..MaxRangeChunks, extra \in {0, 1},
          leafLimit \in 0..MaxRangeLimit,
          startLevel \in (0..MaxStartLevel) \cup {256} :
            treeOut = [kind |-> "range", pc |-> "start",
                       dataLen |-> n * ChunkSize + extra,
                       leafLimit |-> leafLimit, startLevel |-> startLevel,
                       i |-> 0, poolBuffer |-> [cap |-> 0, len |-> 0],
                       layer |-> [len |-> 0, cap |-> 0, array |-> "none"],
                       peak |-> 0, pads |-> 0, err |-> FALSE, put |-> "none"]

\* the length check fails: the call returns before it takes a buffer
RangeReject ==
    /\ treeOut.kind = "range"
    /\ treeOut.pc = "start"
    /\ treeOut.dataLen % ChunkSize # 0
    /\ treeOut' = [treeOut EXCEPT !.pc = "done", !.err = TRUE]
    /\ UNCHANGED <<tree, leaves, treeHist, concVars, nonTreeVars>>

\* poolBuffer := bufpool.Get(len(data) + 64);
\* layer := poolBuffer.B[:len(data)]; copy(layer, data)
RangeAcquire ==
    /\ treeOut.kind = "range"
    /\ treeOut.pc = "start"
    /\ treeOut.dataLen % ChunkSize = 0
    /\ LET b == GetSlice(ScratchSize(treeOut.dataLen)) IN
         treeOut' = [treeOut EXCEPT
                        !.pc = "loop",
                        !.poolBuffer = b,
                        !.layer = [len |-> treeOut.dataLen, cap |-> b.cap,
                                   array |-> "pool"],
                        !.peak = treeOut.dataLen,
                        !.i = Uint8(treeOut.startLevel)]
    /\ UNCHANGED <<tree, leaves, treeHist, concVars, nonTreeVars>>

\* one iteration of the loop, `padded` the layer after its padding: the
\* layer is hashed in place into its first half
RangeHashed(padded, odd) ==
    treeOut' = [treeOut EXCEPT
                   !.layer = [padded EXCEPT !.len = (padded.len \div 64) * ChunkSize],
                   !.peak = Max(@, padded.len),
                   !.pads = @ + (IF odd THEN 1 ELSE 0),
                   !.i = Uint8(@ + 1)]
RangeLevel ==
    /\ treeOut.kind = "range"
    /\ treeOut.pc = "loop"
    /\ treeOut.i < GetDepth(treeOut.leafLimit)
    /\ LET odd == (treeOut.layer.len \div ChunkSize) % 2 # 0 IN
         RangeHashed(IF odd THEN AppendChunk(treeOut.layer) ELSE treeOut.layer,
                     odd)
    /\ UNCHANGED <<tree, leaves, treeHist, concVars, nonTreeVars>>

\* copy(output, layer[:32]); return, and the deferred
\* bufpool.Put(poolBuffer)
RangeReturn ==
    /\ treeOut.kind = "range"
    /\ treeOut.pc = "loop"
    /\ treeOut.i >= GetDepth(treeOut.leafLimit)
    /\ treeOut' = [treeOut EXCEPT !.pc = "done", !.put = "pool"]
    /\ UNCHANGED <<tree, leaves, treeHist, concVars, nonTreeVars>>

RangeNext ==
    \/ RangeReject
    \/ RangeAcquire
    \/ RangeLevel
    \/ RangeReturn

(***************************************************************************)
(* Hash tree root of a vector of basic values: struct_merkle.go            *)
(***************************************************************************)
MaxVectorLen == 5       \* vectors of 1 .. MaxVectorLen elements

BasicTypes == {"bool", "uint8", "uint16", "uint32", "uint64", "uint128", "uint256"}

basicTypeSize(t) ==
    CASE t \in {"uint8", "bool"} -> 1
      [] t = "uint16" -> 2
      [] t = "uint32" -> 4
      [] t = "uint64" -> 8
      [] t = "uint128" -> 16
      [] t = "uint256" -> 32
      [] OTHER -> 0

\* the element values drawn: zero, a low byte, and a second byte where the
\* type has one
ElemValues(t) == IF basicTypeSize(t) = 1 THEN {0, 1} ELSE {0, 1, 256}

\* binary.LittleEndian.PutUintN of a value below 2^24 into size bytes
PutLittleEndian(x, size) ==
    [j \in 1..size |-> IF j > 3 THEN 0 ELSE (x \div (256 ^ (j - 1))) % 256]

\* a [32]byte filled from the bytes bs (at most 32), the rest zero: the chunk
\* is named by the number its bytes spell, so the all-zero chunk is Zero
RECURSIVE ChunkCode(_, _)
ChunkCode(bs, j) ==
    IF j > Len(bs) THEN 0
    ELSE (IF bs[j] = 0 THEN 0 ELSE bs[j] * (2 ^ (j - 1))) + ChunkCode(bs, j + 1)
ChunkOf(bs) == Leaf(ChunkCode(bs, 1))

\* packBytes(data): at least one chunk
packBytes(data) ==
    LET n == (Len(data) + ChunkSize - 1) \div ChunkSize
        numChunks == IF n = 0 THEN 1 ELSE n
    IN [i \in 1..numChunks |->
           ChunkOf(SubSeq(data, (i - 1) * ChunkSize + 1,
                          Min(i * ChunkSize, Len(data))))]

\* packBasicVector(v, length, elemType): the switch has no case for
\* TypeUint128 and TypeUint256, so data stays nil for them
packBasicVector(v, length, t) ==
    packBytes(IF t \in {"uint128", "uint256"} THEN <<>>
              ELSE Concat([i \in 1..length |->
                              PutLittleEndian(v[i], basicTypeSize(t))]))

\* merkle_tree.MerkleizeVector(elements, length)
MerkleizeVector(elements, length) ==
    IF Len(elements) = 0 THEN [err |-> FALSE, out |-> ZeroHashes(GetDepth(length))]
    ELSE [err |-> FALSE, out |-> RangeLoop(elements, 0, GetDepth(length))[1]]

\* merkle_tree.BytesRoot(b)
BytesRoot(b) ==
    LET leafCount == NextPowerOfTwo((Len(b) + 31) \div ChunkSize)
        chunks == packBytes(b)
    IN ComputeMerkleRoot(Bytes(leafCount * ChunkSize,
           [i \in 1..leafCount |-> IF i <= Len(chunks) /\ Len(b) > 0
                                   THEN chunks[i] ELSE Zero]))

\* hashTreeRootVector(v, typeInfo) for a basic element type
hashTreeRootVector(v, length, t) ==
    IF t = "uint8"
    THEN IF Len(v) <= ChunkSize THEN [err |-> FALSE, out |-> ChunkOf(v)]
         ELSE BytesRoot(v)
    ELSE MerkleizeVector(packBasicVector(v, length, t),
                         length * basicTypeSize(t))

\* a Vector[t, N] of basic values to hash
VectorInit ==
    \E t \in BasicTypes : \E n \in 1..MaxVectorLen :
        \E v \in [1..n -> ElemValues(t)] :
            /\ input = [kind |-> "vector", typ |-> t, v |-> v, b |-> <<>>,
                        valid |-> TRUE]
            /\ codec = CodecAt("start", <<>>, <<>>, NoErr)

\* root, err := hashTreeRoot(v, typeInfo) of the vector
VectorHashTreeRoot ==
    /\ input.kind = "vector"
    /\ codec.phase = "start"
    /\ LET r == hashTreeRootVector(input.v, Len(input.v), input.typ) IN
         codec' = CodecAt("hashed", r.out, <<>>,
                          IF r.err THEN "hash" ELSE NoErr)
    /\ UNCHANGED <<input, nonCodecVars>>

VectorNext == VectorHashTreeRoot

(***************************************************************************)
(* Schema fields: Field.IsValid and Field.IsVariable (types.go)            *)
(* A Field is [Name, Type, Size, Limit, Ref, Children]; refs is a function *)
(* from the names it knows to Fields.                                      *)
(***************************************************************************)
\* const maxIterations = 1000 in IsValid and IsVariable.  The runs take a
\* smaller cap, which is still more than the depth of every schema without
\* a cycle that they draw.
maxIterations == 12

Field(name, type, size, limit, ref, children) ==
    [Name |-> name, Type |-> type, Size |-> size, Limit |-> limit,
     Ref |-> ref, Children |-> children]

MaxIterationsErr == "max iterations reached - possible circular reference"

RECURSIVE isVariable(_, _, _, _)
RECURSIVE isVariableChildren(_, _, _, _, _)

\* the loop over f.Children in isVariable, after child i returned r
isVariableChildrenNext(r, children, i, refs, iterations, max) ==
    IF r.err # NoErr THEN [v |-> FALSE, err |-> r.err]
    ELSE IF r.v THEN [v |-> TRUE, err |-> NoErr]
    ELSE isVariableChildren(children, i + 1, refs, iterations, max)

\* the loop over f.Children in isVariable, from child i on; falling out of
\* it returns false, nil
isVariableChildren(children, i, refs, iterations, max) ==
    IF i > Len(children) THEN [v |-> FALSE, err |-> NoErr]
    ELSE isVariableChildrenNext(
             isVariable(children[i], refs, iterations + 1, max),
             children, i, refs, iterations, max)

\* isVariable(f, refs, iterations, maxIterations): [v, err]
isVariable(f, refs, iterations, max) ==
    IF iterations >= max THEN [v |-> FALSE, err |-> MaxIterationsErr]
    ELSE CASE f.Type \in {"list", "bitlist", "union"} ->
                 [v |-> TRUE, err |-> NoErr]
           [] f.Type \in {"container", "vector", "bitvector"} ->
                 isVariableChildren(f.Children, 1, refs, iterations, max)
           [] f.Type = "ref" ->
                 IF f.Ref = ""
                     THEN [v |-> FALSE,
                           err |-> "field has type 'ref' but no ref specified"]
                 ELSE IF f.Ref \notin DOMAIN refs
                     THEN [v |-> FALSE, err |-> "ref type not found"]
                 ELSE isVariable(refs[f.Ref], refs, iterations + 1, max)
           [] OTHER -> [v |-> FALSE, err |-> NoErr]

\* f.IsVariable(refs)
IsVariable(f, refs) == isVariable(f, refs, 0, maxIterations)

RECURSIVE isValid(_, _, _, _)
RECURSIVE isValidChildren(_, _, _, _, _)

\* the loop over f.Children in isValid, after child i returned err (the
\* error of a child is returned wrapped in the name of the field)
isValidChildrenNext(err, children, i, refs, iterations, max) ==
    IF err # NoErr THEN err
    ELSE isValidChildren(children, i + 1, refs, iterations, max)

\* the loop over f.Children in isValid, from child i on
isValidChildren(children, i, refs, iterations, max) ==
    IF i > Len(children) THEN NoErr
    ELSE isValidChildrenNext(
             isValid(children[i], refs, iterations + 1, max),
             children, i, refs, iterations, max)

\* isValid(f, refs, iterations, maxIterations): the error, NoErr for nil
isValid(f, refs, iterations, max) ==
    IF iterations >= max THEN MaxIterationsErr
    ELSE IF f.Name = "" THEN "field name cannot be empty"
    ELSE CASE f.Type \in {"uint8", "uint16", "uint32", "uint64", "uint128",
                          "uint256", "boolean"} -> NoErr
           [] f.Type \in {"vector", "bitvector"} ->
                 IF f.Size = 0 THEN "field must have non-zero size"
                 ELSE IF f.Type = "vector"
                     THEN isValidChildren(f.Children, 1, refs, iterations, max)
                 ELSE NoErr
           [] f.Type \in {"list", "bitlist"} ->
                 IF f.Limit = 0 THEN "field must have non-zero limit"
                 ELSE IF f.Type = "list"
                     THEN isValidChildren(f.Children, 1, refs, iterations, max)
                 ELSE NoErr
           [] f.Type \in {"container", "union"} ->
                 IF Len(f.Children) = 0 THEN "field must have children"
                 ELSE isValidChildren(f.Children, 1, refs, iterations, max)
           [] f.Type = "ref" ->
                 IF f.Ref = ""
                     THEN "field has type 'ref' but no ref specified"
                 ELSE IF f.Ref \notin DOMAIN refs
                     THEN "field references a type which is not found"
                 ELSE isValid(refs[f.Ref], refs, iterations + 1, max)
           [] OTHER -> "field has unknown type"

\* f.IsValid(refs)
IsValid(f, refs) == isValid(f, refs, 0, maxIterations)

\* bounds of the schemas
MaxChildren == 2       \* the most children of a field

\* the names of the reference map
RefNames == {"A", "B"}
RefTo(name) == Field("r", "ref", 0, 0, name, <<>>)
\* the fields without children: a number, a field without a name, a list, a
\* bit-vector, a vector without size, and refs to "A", to "B", to the
\* name "C" no map knows and to no name
LeafFields ==
    {Field("n", "uint8", 0, 0, "", <<>>),
     Field("", "uint8", 0, 0, "", <<>>),
     Field("l", "list", 0, 1, "", <<>>),
     Field("b", "bitvector", 8, 0, "", <<>>),
     Field("v", "vector", 0, 0, "", <<>>),
     Field("x", "float", 0, 0, "", <<>>),
     RefTo("A"), RefTo("B"), RefTo("C"), RefTo("")}
\* the children of the fields
ChildFields ==
    {Field("n", "uint8", 0, 0, "", <<>>),
     Field("l", "list", 0, 1, "", <<>>),
     RefTo("A"), RefTo("B"), RefTo("C")}
\* the fields with children
ParentFields ==
    {Field("p", type, 1, 1, "", children) :
        type \in {"list", "bitlist", "vector", "bitvector", "container", "union"},
        children \in SeqsUpTo(ChildFields, MaxChildren) \ {<<>>}}
\* the fields the reference maps give to the names
RefFields ==
    {Field("t", "uint8", 0, 0, "", <<>>),
     RefTo("A"), RefTo("B"),
     Field("t", "container", 0, 0, "", <<RefTo("A")>>),
     Field("t", "container", 0, 0, "", <<RefTo("B")>>),
     Field("t", "list", 0, 1, "", <<RefTo("A")>>),
     Field("t", "container", 0, 0, "",
           <<Field("n", "uint8", 0, 0, "", <<>>), RefTo("B")>>)}
RefMaps == UNION {[names -> RefFields] : names \in SUBSET RefNames}

NotCalled == [called |-> FALSE, v |-> FALSE, err |-> NoErr]

\* a field and a reference map
SchemaInit ==
    \E f \in LeafFields \cup ParentFields : \E refs \in RefMaps :
        /\ input = [kind |-> "schema", f |-> f, refs |-> refs]
        /\ codec = [valid |-> NotCalled, variable |-> NotCalled]

\* err := f.IsValid(refs)
SchemaIsValid ==
    /\ input.kind = "schema"
    /\ ~codec.valid.called
    /\ codec' = [codec EXCEPT !.valid =
                    [called |-> TRUE, v |-> FALSE,
                     err |-> IsValid(input.f, input.refs)]]
    /\ UNCHANGED <<input, nonCodecVars>>

\* v, err := f.IsVariable(refs)
SchemaIsVariableResult(r) == [called |-> TRUE, v |-> r.v, err |-> r.err]
SchemaIsVariable ==
    /\ input.kind = "schema"
    /\ ~codec.variable.called
    /\ codec' = [codec EXCEPT !.variable =
                    SchemaIsVariableResult(IsVariable(input.f, input.refs))]
    /\ UNCHANGED <<input, nonCodecVars>>

SchemaNext ==
    \/ SchemaIsValid
    \/ SchemaIsVariable

(***************************************************************************)
(* Specifications: one component runs, the others stay as constructed      *)
(***************************************************************************)
InitPool == PoolInit /\ TreeIdle /\ ConcIdle /\ BuilderIdle /\ CodecIdle /\ CacheIdle
SpecPool == InitPool /\ [][PoolNext]_vars

InitPoolConc ==
    PoolInit /\ TreeIdle /\ ConcIdle /\ BuilderIdle /\ CodecIdle /\ CacheIdle
SpecPoolConc == InitPoolConc /\ [][PoolConcNext]_vars

InitTree == TreeInit /\ ConcIdle /\ PoolIdle /\ BuilderIdle /\ CodecIdle /\ CacheIdle
SpecTree == InitTree /\ [][TreeNext]_vars

InitTreeLeaves ==
    LeavesInit /\ ConcIdle /\ PoolIdle /\ BuilderIdle /\ CodecIdle /\ CacheIdle
SpecTreeLeaves == InitTreeLeaves /\ [][LeavesNext]_vars

InitRange ==
    RangeInit /\ PoolIdle /\ ConcIdle /\ BuilderIdle /\ CodecIdle /\ CacheIdle
SpecRange == InitRange /\ [][RangeNext]_vars

InitTreeMarks == MarksInit /\ PoolIdle /\ BuilderIdle /\ CodecIdle /\ CacheIdle
SpecTreeMarks == InitTreeMarks /\ [][MarksNext]_vars

InitTreeConc == ConcInit /\ PoolIdle /\ BuilderIdle /\ CodecIdle /\ CacheIdle
SpecTreeConc == InitTreeConc /\ [][ConcNext]_vars

InitBuilder == BuilderInit /\ PoolIdle /\ TreeIdle /\ ConcIdle /\ CodecIdle /\ CacheIdle
SpecBuilder == InitBuilder /\ [][BuilderNext]_vars

InitCodec ==
    CodecInit /\ PoolIdle /\ TreeIdle /\ ConcIdle /\ BuilderIdle /\ CacheIdle
SpecCodec == InitCodec /\ [][CodecNext]_vars

InitBitList ==
    BitListInit /\ PoolIdle /\ TreeIdle /\ ConcIdle /\ BuilderIdle /\ CacheIdle
SpecBitList == InitBitList /\ [][BitListNext]_vars

InitCache ==
    CacheInit /\ PoolIdle /\ TreeIdle /\ ConcIdle /\ BuilderIdle /\ CodecIdle
SpecCache == InitCache /\ [][CacheNext]_vars

InitMerkleRoot ==
    MerkleRootInit /\ PoolIdle /\ ConcIdle /\ BuilderIdle /\ CodecIdle /\ CacheIdle
SpecMerkleRoot == InitMerkleRoot /\ [][MerkleRootNext]_vars

InitVector ==
    VectorInit /\ PoolIdle /\ TreeIdle /\ ConcIdle /\ BuilderIdle /\ CacheIdle
SpecVector == InitVector /\ [][VectorNext]_vars

InitGetDepth ==
    GetDepthInit /\ PoolIdle /\ ConcIdle /\ BuilderIdle /\ CodecIdle /\ CacheIdle
SpecGetDepth == InitGetDepth /\ [][GetDepthNext]_vars

InitMarshal ==
    MarshalInit /\ PoolIdle /\ TreeIdle /\ ConcIdle /\ BuilderIdle /\ CacheIdle
SpecMarshal == InitMarshal /\ [][MarshalNext]_vars

InitSchema ==
    SchemaInit /\ PoolIdle /\ TreeIdle /\ ConcIdle /\ BuilderIdle /\ CacheIdle
SpecSchema == InitSchema /\ [][SchemaNext]_vars

InitDecoder ==
    DecoderInit /\ PoolIdle /\ TreeIdle /\ ConcIdle /\ BuilderIdle /\ CacheIdle
SpecDecoder == InitDecoder /\ [][DecoderNext]_vars

(***************************************************************************)
(* Claims                                                                  *)
(***************************************************************************)



IsPowerOfTwo(n) == \E k \in 0..30 : n = 2 ^ k

\* C9 (as stated): every Get(n), n >= 0, returns a buffer of length exactly n
\* whose capacity is a power of two >= n.
C9_GetLenCapAsStated ==
    lastGet.kind = "buf" =>
        /\ lastGet.len = lastGet.size
        /\ IsPowerOfTwo(lastGet.cap)
        /\ lastGet.cap >= lastGet.size

\* C9 (amended): after any sequence of get and put calls, Get(n) returns a
\* buffer of length exactly n; for n >= 1 within the size classes its capacity
\* is a power of two >= n, and for n = 0 it is an empty buffer of capacity 0.
C9_GetLenCap ==
    lastGet.kind = "buf" =>
        /\ lastGet.len = lastGet.size
        /\ (lastGet.size = 0 => lastGet.cap = 0)
        /\ (lastGet.size >= 1 /\ nextPowerOf2Index(lastGet.size) < NumPools =>
               IsPowerOfTwo(lastGet.cap) /\ lastGet.cap >= lastGet.size)

\* a Get served from the pool with a size below the buffer's capacity
C9_Witness ==
    /\ lastGet.kind = "buf"
    /\ lastGet.reused
    /\ lastGet.size >= 1
    /\ lastGet.size < lastGet.cap

\* C10: when callers stop using a buffer once they have put it, every byte of
\* the buffer a Get returns is zero (over its whole capacity), whether the
\* buffer is fresh or reused.
C10_GetZeroed ==
    lastGet.kind = "buf" => \A i \in 1..lastGet.cap : lastGet.data[i] = 0

\* a Get that reuses a buffer some caller had written to
C10_Witness ==
    /\ lastGet.kind = "buf"
    /\ lastGet.reused
    /\ lastGet.wasDirtied
    /\ lastGet.size >= 1

\* C3: for any sequence of leaf changes with MarkLeafAsDirty, and of
\* ComputeRoot calls, after Initialize (marks before the first ComputeRoot
\* included), every ComputeRoot returns the root obtained by merkleizing the
\* current leaves from scratch, padded to the limit when one is set.
C3_RootEqualsScratch ==
    treeOut.kind # "none" =>
        treeOut.kind = "root" /\ treeOut.root = treeOut.scratch

\* the same, for the calls no MarkLeafAsDirty preceded before the first
\* ComputeRoot of the tree: these all return the from-scratch root
RootEqualsScratchOnceComputed ==
    treeOut.kind # "none" /\ ~treeOut.hist.earlyMark =>
        treeOut.kind = "root" /\ treeOut.root = treeOut.scratch

\* C7: for any interleaving of concurrent MarkLeafAsDirty and ComputeRoot
\* calls on one tree, a ComputeRoot that starts after every pending leaf
\* change was marked returns the root over the current leaves: no dirty
\* mark is lost.
C7_RootReflectsMarks ==
    treeOut.kind # "none" /\ ~treeOut.inFlight =>
        treeOut.kind = "root" /\ treeOut.root = treeOut.scratch

\* the program counters at which a goroutine is inside an operation on the
\* shared tree: past the operation's lock on m.mu, or in an operation that
\* takes none
InsideTreeOp ==
    {"marking", "computing", "appending", "settingFn", "copyingOut",
     "copyInLocked", "copyingIn"}

\* C8: on a single tree, ComputeRoot never overlaps in time with any other
\* operation on that tree (MarkLeafAsDirty, AppendLeaf, SetComputeLeafFn,
\* CopyInto, another ComputeRoot).
C8_ComputeRootExclusive ==
    \A a, b \in Threads :
        a # b /\ thr[a].pc = "computing" => thr[b].pc \notin InsideTreeOp

\* the same without SetComputeLeafFn: ComputeRoot excludes every operation
\* that takes m.mu
ComputeRootExcludesLockedOps ==
    \A a, b \in Threads :
        a # b /\ thr[a].pc = "computing" =>
            thr[b].pc \notin (InsideTreeOp \ {"settingFn"})

\* two MarkLeafAsDirty calls hold the read lock at once
MarksOverlap ==
    \E a, b \in Threads : a # b /\ thr[a].pc = "marking" /\ thr[b].pc = "marking"

\* C4: in the bytes Finish writes, for every builder context (the root and
\* every context closed by ExitDynamic, at any depth), the offsets stored in
\* its fixed part satisfy: the first equals the size of the fixed part, each
\* is at most the next, and the last is at most the length of the context's
\* whole encoding.
C4_OffsetsWellFormed ==
    written.done =>
        \A c \in Contexts(builder[1], 0) :
            LET offs == OffsetsOf(c)
                k == Len(offs)
            IN  k > 0 =>
                  /\ offs[1] = SumLen(FixedPartOf(c))
                  /\ \A i \in 1..(k - 1) : IntLeq(offs[i], offs[i + 1])
                  /\ IntLeq(offs[k], SumLen(EncodingOf(c)))

\* the same for the outputs of less than 2^32 bytes
OffsetsWellFormedBelow4GiB ==
    written.done /\ SumLen(written.out)[1] < Half =>
        \A c \in Contexts(builder[1], 0) :
            LET offs == OffsetsOf(c)
                k == Len(offs)
            IN  k > 0 =>
                  /\ offs[1] = SumLen(FixedPartOf(c))
                  /\ \A i \in 1..(k - 1) : IntLeq(offs[i], offs[i + 1])
                  /\ IntLeq(offs[k], SumLen(EncodingOf(c)))

\* C6: after any nesting of EnterDynamic / ExitDynamic and Finish on the
\* root, the bytes of every child context (its fixed part, then its heap)
\* stand contiguously in the output, and they start at the position, counted
\* from the start of the parent's encoding, that the parent's offset
\* placeholder for the child holds.
C6_ChildAtPlaceholder ==
    written.done =>
        \A c \in Contexts(builder[1], 0) :
            \A j \in 1..Len(c.d.currentHeap) :
                c.d.currentHeap[j].fn = "dynamic" =>
                    LET child == c.d.currentHeap[j].d
                        at == HeapEntryAt(c, j)
                    IN  /\ SubSeq(written.out, at + 1,
                                  at + Len(EncodeMemory(child)))
                              = EncodeMemory(child)
                        /\ OffsetsOf(c)[j]
                              = SumLen(SubSeq(written.out, c.at + 1, at))

\* the same for the outputs of less than 2^32 bytes
ChildAtPlaceholderBelow4GiB ==
    written.done /\ SumLen(written.out)[1] < Half =>
        \A c \in Contexts(builder[1], 0) :
            \A j \in 1..Len(c.d.currentHeap) :
                c.d.currentHeap[j].fn = "dynamic" =>
                    LET child == c.d.currentHeap[j].d
                        at == HeapEntryAt(c, j)
                    IN  /\ SubSeq(written.out, at + 1,
                                  at + Len(EncodeMemory(child)))
                              = EncodeMemory(child)
                        /\ OffsetsOf(c)[j]
                              = SumLen(SubSeq(written.out, c.at + 1, at))

\* a finished output holding a child context nested in a child context,
\* each after other words of its parent
NestedChildWritten ==
    /\ written.done
    /\ \E c \in Contexts(builder[1], 0) :
          /\ c.at > 0
          /\ \E j \in 2..Len(c.d.currentHeap) :
                c.d.currentHeap[j].fn = "dynamic"

\* C1: for every value v of a valid SSZ type, Marshal(v) succeeds, and
\* DecodeStruct of the bytes it returned into a fresh destination succeeds
\* and leaves there a value equal to v.
C1_RoundTrip ==
    input.kind = "value" =>
        /\ codec.phase = "marshalled" => codec.err = NoErr
        /\ codec.phase = "decoded" => codec.err = NoErr /\ codec.val = input.v

\* the values C1 fails on are of two kinds only: a list of variable-size
\* elements whose last element is empty, and a bitlist given with a trailing
\* zero byte
RoundTripButLastEmptyOrPadded ==
    input.kind = "value" /\ codec.phase = "decoded" =>
        \/ codec.err = NoErr /\ codec.val = input.v
        \/ /\ input.typ \in {2, 6}
           /\ input.v[1] # <<>>
           /\ LET last == input.v[1][Len(input.v[1])] IN
                last = <<>> \/ (input.typ = 6 /\ last[2] = <<>>)
        \/ /\ input.typ = 4
           /\ input.v[1] # <<>>
           /\ input.v[1][Len(input.v[1])] = 0

\* C2: for every valid SSZ byte string b of a type T, DecodeStruct(b) into a
\* T succeeds, and Marshal of the decoded value returns exactly b.
C2_BytesRoundTrip ==
    input.kind = "wire" /\ input.valid =>
        /\ codec.phase = "decoded" => codec.err = NoErr
        /\ codec.phase = "marshalled" =>
              codec.err = NoErr /\ codec.bytes = input.b

\* the offsets the input bytes hold for the variable fields of the outer
\* container
InputOffsets ==
    LET slots == FixedPart(CodecTypes[input.typ]).slots IN
    [j \in 1..Len(slots) |->
        LET o == GetUint32(SubSeq(input.b, slots[j] + 1, slots[j] + 4)) IN
        o[1] * Half + o[2]]

\* offset[0] == fixed_part_size, offset[i] <= offset[i+1] and
\* offset[k-1] <= buffer_length
OffsetsInOrder(offs, fixedSize, bufLen) ==
    Len(offs) > 0 =>
        /\ offs[1] = fixedSize
        /\ \A i \in 1..(Len(offs) - 1) : offs[i] <= offs[i + 1]
        /\ offs[Len(offs)] <= bufLen

\* C5: DecodeContainer returns an error for every input whose k offsets of
\* the variable fields violate one of offset[0] == fixed_part_size,
\* offset[i] <= offset[i+1], offset[k-1] <= buffer_length.
C5_BadOffsetsRejected ==
    /\ input.kind = "wire"
    /\ codec.phase = "decoded"
    /\ ~OffsetsInOrder(InputOffsets, FixedPart(CodecTypes[input.typ]).size,
                       Len(input.b))
    => codec.err # NoErr

\* what DecodeContainer does reject: an offset beyond the buffer and an
\* offset greater than the next one
OutOfBoundsOffsetsRejected ==
    /\ input.kind = "wire"
    /\ codec.phase = "decoded"
    /\ \/ \E i \in 1..Len(InputOffsets) : InputOffsets[i] > Len(input.b)
       \/ \E i \in 1..(Len(InputOffsets) - 1) :
              InputOffsets[i] > InputOffsets[i + 1]
    => codec.err # NoErr

\* C11: under any interleaving of concurrent Get and Put calls on one pool,
\* each caller putting a buffer at most once per Get, no buffer is in the
\* hands of two callers at the same time, and no buffer in the hands of a
\* caller is at the same time available in the pool.
C11_NoSharedBuffer ==
    \A id \in BufIds :
        /\ \A a, b \in Callers :
              id \in Touches(a) /\ id \in Touches(b) => a = b
        /\ (\E c \in Callers : id \in Touches(c)) => pooled[id] = 0

\* a caller holds a buffer that another caller had Put, while the other
\* caller is inside a call of the pool on another buffer
C11_Witness ==
    \E a, b \in Callers :
        /\ a # b
        /\ lastGet.kind = "buf" /\ lastGet.reused /\ lastGet.caller = a
        /\ lastGet.id \in held[a]
        /\ flight[b].pc # "idle"

\* C12: under any interleaving of concurrent GetTypeInfo calls, for the same
\* or for different types, a goroutine reads the cache map only while it
\* holds the reader lock and writes it only while it holds the writer lock,
\* so that no goroutine accesses the map while another one writes it.
C12_CacheAccessLocked ==
    /\ \A th \in Threads :
          /\ lookup[th].pc = "rlocked" => th \in typeInfoCacheMutex.r
          /\ lookup[th].pc = "wlocked" => typeInfoCacheMutex.w = th
    /\ \A a, b \in Threads :
          a # b /\ lookup[a].pc = "wlocked" =>
              lookup[b].pc \notin {"rlocked", "wlocked"}

\* a goroutine is about to write the entry of a type while another one is
\* inside a lookup of the same type and has yet to take the lock
C12_Witness ==
    \E a, b \in Threads :
        /\ a # b
        /\ lookup[a].pc = "wlocked"
        /\ lookup[b].pc \in {"call", "parsed"}
        /\ lookup[b].t = lookup[a].t

\* C13: the cache is append-only: once a type has an entry, the entry is
\* never removed and never replaced by another TypeInfo node, under any
\* interleaving of concurrent first lookups of the same type.
C13_CacheAppendOnly ==
    [][\A t \in CacheTypes :
          typeInfoCache[t] # NoNode => typeInfoCache'[t] = typeInfoCache[t]]_vars

\* an entry of the cache is never removed
CacheEntryNeverRemoved ==
    [][\A t \in CacheTypes :
          typeInfoCache[t] # NoNode => typeInfoCache'[t] # NoNode]_vars

\* C14: within one DecodeStruct call the decode functions of the fields are
\* called in the order the fields are declared, for every container layout,
\* also one that declares a variable-size field before a fixed-size field.
C14_DeclarationOrder ==
    codec.phase = "decoded" =>
        \A i, j \in 1..Len(codec.invoked) :
            i < j => codec.invoked[i] < codec.invoked[j]

\* the order the code keeps: the fixed-size fields in declaration order, and
\* after all of them the variable-size fields in declaration order
FixedThenVariableOrder ==
    codec.phase = "decoded" =>
        LET fields == GetTypeInfo(CodecTypes[input.typ], EmptyTag).Fields
            variable(k) == \E f \in 1..Len(fields) :
                               fields[f].Index = k /\ fields[f].Type.IsVariable
        IN  \A i, j \in 1..Len(codec.invoked) :
                i < j =>
                    \/ ~variable(codec.invoked[i]) /\ variable(codec.invoked[j])
                    \/ /\ variable(codec.invoked[i]) = variable(codec.invoked[j])
                       /\ codec.invoked[i] < codec.invoked[j]

\* C15: for every bit-list b of n bits with n <= M, whatever its bits (also
\* when its highest bits are zero), EncodeBitList(b, M) succeeds, and
\* DecodeBitList of the encoding succeeds and returns b, with numBits = n.
C15_BitListRoundTrip ==
    input.kind = "bits" =>
        /\ codec.phase = "encoded" => codec.err = NoErr
        /\ codec.phase = "decoded" =>
              /\ codec.err = NoErr
              /\ codec.val.numBits = Len(input.v)
              /\ codec.val.out = input.b

\* the round trip does hold for the bit-lists whose last bit is set and
\* whose bytes, counted as 8 bits each, are within the limit
BitListRoundTripWhenLastBitSet ==
    /\ input.kind = "bits"
    /\ input.v # <<>>
    /\ input.v[Len(input.v)] = 1
    /\ Len(input.b) * 8 <= input.typ
    => /\ codec.phase = "encoded" => codec.err = NoErr
       /\ codec.phase = "decoded" =>
             /\ codec.err = NoErr
             /\ codec.val.numBits = Len(input.v)
             /\ codec.val.out = input.b

\* the depth of the perfect tree with n leaves, n a power of two
Log2Exact(n) == CHOOSE k \in 0..30 : 2 ^ k = n

\* C16: for data of n >= 1 whole chunks and a power-of-two leaf limit >= n,
\* ComputeMerkleRootRange(data, out, leafLimit, 0) succeeds and writes the
\* root of the tree with leafLimit leaves whose first n leaves are the data
\* chunks and whose remaining leaves are zero chunks.
C16_RootOfPaddedTree ==
    treeOut.kind = "root" =>
        /\ ~treeOut.err
        /\ treeOut.out = MerkleRootOf(leaves, Log2Exact(treeOut.leafLimit))

\* three chunks under a limit of eight leaves: odd layers are padded on two
\* levels and the limit is deeper than the data
C16_Witness ==
    /\ treeOut.kind = "root"
    /\ Len(leaves) = 3
    /\ leaves[3] # Zero
    /\ treeOut.leafLimit = 8
    /\ treeOut.out = Hash(Hash(Hash(leaves[1], leaves[2]), Hash(leaves[3], Zero)),
                          ZeroHashes(2))

\* the smallest k with 2^k >= n
CeilLog2(n) == CHOOSE k \in 0..30 : 2 ^ k >= n /\ (k = 0 \/ 2 ^ (k - 1) < n)

\* the chunks of the values packed contiguously, little-endian, the last
\* chunk padded with zero bytes
PackedChunks(v, t) ==
    LET data == Concat([i \in 1..Len(v) |-> PutLittleEndian(v[i], basicTypeSize(t))])
    IN [c \in 1..((Len(data) + ChunkSize - 1) \div ChunkSize) |->
           ChunkOf(SubSeq(data, (c - 1) * ChunkSize + 1,
                          Min(c * ChunkSize, Len(data))))]

\* C17: the hash tree root of a vector of N basic values is the Merkle root
\* of its little-endian packed chunks in a tree of depth
\* ceil(log2(chunk_count)), chunk_count = ceil(N * size / 32).
C17_VectorRoot ==
    (input.kind = "vector" /\ codec.phase = "hashed") =>
        /\ codec.err = NoErr
        /\ codec.val = MerkleRootOf(PackedChunks(input.v, input.typ),
                                    CeilLog2(Len(PackedChunks(input.v, input.typ))))

\* what the code computes for element types of 1 to 8 bytes: the packed
\* chunks under a tree of depth floor(log2(N * size)) for every type but
\* uint8, whose vectors of at most 32 bytes are their own single chunk
VectorRootByByteCount ==
    (/\ input.kind = "vector"
     /\ codec.phase = "hashed"
     /\ input.typ \notin {"uint128", "uint256"}) =>
        /\ codec.err = NoErr
        /\ codec.val = MerkleRootOf(PackedChunks(input.v, input.typ),
               IF input.typ = "uint8" THEN 0
               ELSE GetDepth(Len(input.v) * basicTypeSize(input.typ)))

\* C18: GetDepth(n) is 0 when n <= 1 and otherwise ceil(log2(n)).
C18_GetDepthCeil ==
    treeOut.kind = "depth" =>
        treeOut.depth = IF treeOut.n <= 1 THEN 0 ELSE CeilLog2(treeOut.n)

\* what the code computes: 0 when n <= 1 and otherwise floor(log2(n)), which
\* is ceil(log2(n)) exactly when n is a power of two
GetDepthIsFloorLog2 ==
    treeOut.kind = "depth" =>
        /\ treeOut.n <= 1 => treeOut.depth = 0
        /\ treeOut.n >= 1 =>
              /\ 2 ^ treeOut.depth <= treeOut.n
              /\ treeOut.n < 2 ^ (treeOut.depth + 1)
        /\ IsPowerOfTwo(treeOut.n) => treeOut.depth = CeilLog2(treeOut.n)

\* C19: no public operation panics, failures are returned as error values
\* (here: DecodeStruct and Marshal, on any input bytes or values).
C19_NoPanic ==
    codec.phase \in {"marshalled", "decoded"} =>
        codec.err \notin {DecodePanic, IndexPanic}

\* Marshal of a value never panics, and DecodeStruct of the bytes Marshal
\* wrote never panics
NoPanicOnMarshalledBytes ==
    (input.kind = "value" \/ input.valid) =>
        codec.err \notin {DecodePanic, IndexPanic}

\* the last read asked for more bytes than were left
Underflow ==
    /\ input.kind = "buffer"
    /\ codec.val.need > Len(codec.bytes) - codec.val.before

\* C20 (as stated): a read that needs more bytes than remain, also one made
\* with the cursor exactly at the end, fails with an "unexpected end" error
\* and leaves the cursor where it was; the cursor never exceeds the length.
C20_UnexpectedEndAsStated ==
    /\ input.kind = "buffer" => codec.val.cur <= Len(codec.bytes)
    /\ Underflow =>
          /\ codec.err = "ssz: unexpected EOF"
          /\ codec.val.cur = codec.val.before

\* C20 (amended): a read that needs more bytes than remain fails and leaves
\* the cursor where it was, with the "unexpected end" error when the cursor
\* is before the end and with io.EOF when it is exactly at the end; the
\* cursor never exceeds the length.
C20_UnderflowFails ==
    /\ input.kind = "buffer" => codec.val.cur <= Len(codec.bytes)
    /\ Underflow =>
          /\ codec.val.cur = codec.val.before
          /\ codec.err = IF codec.val.before = Len(codec.bytes) THEN "EOF"
                         ELSE "ssz: unexpected EOF"

\* earlier reads moved the cursor to the end of a buffer of five bytes and
\* a read of two bytes more is refused there
C20_Witness ==
    /\ Underflow
    /\ Len(codec.bytes) = 5
    /\ codec.val.before = 5
    /\ codec.val.need = 2
    /\ codec.val.cur = 5
    /\ codec.err = "EOF"
\* C21: container decoding fails with an error whenever the decode function
\* of a variable field finishes without having consumed every byte of the
\* sub-decoder range it was given.
C21_LeftoverRejected ==
    (codec.phase = "decoded" /\ codec.left) => codec.err # NoErr

\* when the bytes Marshal wrote decode without error, the decode functions
\* of the variable fields consumed them whole
NoLeftoverOnMarshalledBytes ==
    (codec.phase = "decoded" /\ input.kind = "value" /\ codec.err = NoErr) =>
        ~codec.left

\* the offset that the pointer word i of the context c stands for: the size
\* of the fixed part of c plus the heap position, as an unbounded number
TrueOffset(c, i) == IntAdd(SumLen(FixedPartOf(c)), c.d.stack[i].pointer)

\* the pointer words of the context c
PointerWords(c) == {i \in 1..Len(c.d.stack) : c.d.stack[i].pointer[1] >= 0}

\* C22: whenever an offset the encoder has to write (fixed-part size plus
\* heap position) is 2^32 or more, encoding fails with an error instead of
\* emitting a wrapped or truncated 4-byte value.
C22_OffsetOverflowFails ==
    written.done =>
        \A c \in Contexts(builder[1], 0) : \A i \in PointerWords(c) :
            TrueOffset(c, i)[1] >= Half => written.err # ""

\* an offset below 2^32 is written as it is
OffsetsBelow4GiBWrittenWhole ==
    written.done =>
        \A c \in Contexts(builder[1], 0) : \A i \in PointerWords(c) :
            TrueOffset(c, i)[1] < Half =>
                GetUint32(FixedPartOf(c)[i].bytes) = TrueOffset(c, i)

\* the value v of type t, held by a field tagged as field, contains a list
\* (bit-lists aside) with more elements than the number its ssz-max declares
RECURSIVE ExceedsMax(_, _, _)
ExceedsMax(v, t, field) ==
    CASE t.Kind = "slice" ->
            \/ /\ field.sszMaxSet
               /\ ~field.unbounded
               /\ field.ssz # "bitlist"
               /\ Len(v) > field.sszMax
            \/ \E i \in 1..Len(v) :
                  ExceedsMax(v[i], t.Elem, StructField("", t.Elem, "", 0))
      [] t.Kind = "struct" ->
            \E i \in 1..Len(t.Fields) :
                ExceedsMax(v[i], t.Fields[i].Type, t.Fields[i])
      [] OTHER -> FALSE

Marshalled == input.kind = "marshal" /\ codec.phase = "marshalled"
MarshalledType == MarshalTypes[input.typ]
NoField == StructField("", GoBool, "", 0)

\* C23: Marshal of a value that contains a list with more elements than the
\* max declared for that list returns a length-limit error and no bytes.
C23_OverLimitRejected ==
    (Marshalled /\ ExceedsMax(input.v, MarshalledType, NoField)) =>
        /\ codec.err = "slice length exceeds limit"
        /\ codec.bytes = <<>>

\* the same with a declared max of at least one
ExceedsPositiveMax(v, t) ==
    /\ ExceedsMax(v, t, NoField)
    /\ t # Empty
OverPositiveLimitRejected ==
    (Marshalled /\ ExceedsPositiveMax(input.v, MarshalledType)) =>
        /\ codec.err = "slice length exceeds limit"
        /\ codec.bytes = <<>>

\* the slice v of type t differs in length from sizes[1], or one of its
\* elements does from the sizes that remain
RECURSIVE Mismatch(_, _, _)
Mismatch(v, t, sizes) ==
    /\ t.Kind = "slice"
    /\ Len(sizes) > 0
    /\ \/ Len(v) # sizes[1]
       \/ \E i \in 1..Len(v) : Mismatch(v[i], t.Elem, Tail(sizes))

\* some field of the struct value v of type t is a fixed-size sequence
\* whose length differs from its ssz-size in some dimension
HasMismatch(v, t) ==
    \E i \in 1..Len(t.Fields) :
        Mismatch(v[i], t.Fields[i].Type, t.Fields[i].sszSize)

\* C24: Marshal returns a length-mismatch error for every fixed-size
\* sequence field, of any element type and at every dimension of its size,
\* whose length differs from the declared size.
C24_SizeMismatchRejected ==
    (Marshalled /\ HasMismatch(input.v, MarshalledType)) =>
        codec.err = "slice length does not match ssz-size"

\* the length check is made for the slices of bytes with one dimension
ByteSliceMismatchRejected ==
    (Marshalled /\ MarshalledType = FixedBytes
       /\ HasMismatch(input.v, MarshalledType)) =>
        codec.err = "slice length does not match ssz-size"

\* no marshalled value is rejected without cause
MarshalErrorsHaveCause ==
    (Marshalled /\ codec.err # NoErr) =>
        \/ ExceedsMax(input.v, MarshalledType, NoField)
        \/ HasMismatch(input.v, MarshalledType)

\* the names of the refs that stand in f or in a field below it
RECURSIVE RefsIn(_)
RefsIn(f) ==
    (IF f.Type = "ref" THEN {f.Ref} ELSE {})
    \cup UNION {RefsIn(f.Children[i]) : i \in 1..Len(f.Children)}

\* the names of refs reached from the names in S in at most n steps
RECURSIVE RefsFrom(_, _, _)
RefsFrom(S, refs, n) ==
    IF n = 0 THEN S
    ELSE RefsFrom(S \cup UNION {RefsIn(refs[r]) : r \in S \cap DOMAIN refs},
                  refs, n - 1)

\* a cycle of refs is reachable from f: some name reached from f is
\* reached again from the field it names
CycleReachable(f, refs) ==
    \E r \in RefsFrom(RefsIn(f), refs, Cardinality(RefNames)) \cap DOMAIN refs :
        r \in RefsFrom(RefsIn(refs[r]), refs, Cardinality(RefNames))

\* C25: IsValid and IsVariable terminate on every field and reference map,
\* and each returns an error whenever a cycle of refs is reachable from the
\* field.
C25_CyclesRejected ==
    (input.kind = "schema" /\ CycleReachable(input.f, input.refs)) =>
        /\ codec.valid.called => codec.valid.err # NoErr
        /\ codec.variable.called => codec.variable.err # NoErr

\* the names of the refs that IsValid resolves below f: those under the
\* children of vectors, lists, containers and unions
RECURSIVE WalkedRefsIn(_)
WalkedRefsIn(f) ==
    CASE f.Type = "ref" -> {f.Ref}
      [] f.Type \in {"vector", "list", "container", "union"} ->
            UNION {WalkedRefsIn(f.Children[i]) : i \in 1..Len(f.Children)}
      [] OTHER -> {}
RECURSIVE WalkedRefsFrom(_, _, _)
WalkedRefsFrom(S, refs, n) ==
    IF n = 0 THEN S
    ELSE WalkedRefsFrom(
             S \cup UNION {WalkedRefsIn(refs[r]) : r \in S \cap DOMAIN refs},
             refs, n - 1)
WalkedCycle(f, refs) ==
    \E r \in WalkedRefsFrom(WalkedRefsIn(f), refs, Cardinality(RefNames))
                \cap DOMAIN refs :
        r \in WalkedRefsFrom(WalkedRefsIn(refs[r]), refs, Cardinality(RefNames))

\* IsValid returns an error whenever a cycle of refs is reachable through
\* the children it validates
ValidRejectsWalkedCycles ==
    (input.kind = "schema" /\ codec.valid.called
       /\ WalkedCycle(input.f, input.refs)) =>
        codec.valid.err # NoErr

\* C30: for every field and reference map for which IsValid succeeds,
\* IsVariable returns a classification without error.
C30_ValidIsClassified ==
    (input.kind = "schema" /\ codec.valid.called /\ codec.variable.called
       /\ codec.valid.err = NoErr) =>
        codec.variable.err = NoErr

\* the same for the fields whose bit-vectors have no children
RECURSIVE BitVectorChildren(_)
BitVectorChildren(f) ==
    \/ f.Type = "bitvector" /\ Len(f.Children) > 0
    \/ \E i \in 1..Len(f.Children) : BitVectorChildren(f.Children[i])
ValidIsClassifiedWithoutBitVectorChildren ==
    (input.kind = "schema" /\ codec.valid.called /\ codec.variable.called
       /\ codec.valid.err = NoErr
       /\ ~BitVectorChildren(input.f)
       /\ \A r \in DOMAIN input.refs : ~BitVectorChildren(input.refs[r])) =>
        codec.variable.err = NoErr

\* C26: for any number of AppendLeaf calls, before or after earlier
\* ComputeRoot calls, the next ComputeRoot returns the root obtained by
\* merkleizing all current leaves, the appended ones included, from scratch.
C26_AppendedLeavesInRoot ==
    (treeOut.kind # "none" /\ treeOut.hist.appended
       /\ treeOut.hist.unmarked = {} /\ ~treeOut.hist.earlyMark) =>
        treeOut.kind = "root" /\ treeOut.root = treeOut.scratch

\* a ComputeRoot that followed an earlier one and an AppendLeaf of a leaf
\* that is not zero, on a tree of more than three leaves
C26_Witness ==
    /\ treeOut.kind = "root"
    /\ treeOut.hist.appended
    /\ treeOut.hist.computed
    /\ ~treeOut.hist.quiet
    /\ treeOut.hist.unmarked = {}
    /\ ~treeOut.hist.earlyMark
    /\ tree.leavesCount = MaxTreeLeaves
    /\ leaves[tree.leavesCount] # Zero
    /\ treeOut.root # treeOut.hist.prev.root

\* C27 as stated: for a tree of any leaf count, when the data of a leaf
\* changed and neither MarkLeafAsDirty nor AppendLeaf was called since the
\* last ComputeRoot, ComputeRoot returns what the last ComputeRoot returned.
C27_UnmarkedChangeUnseen ==
    (treeOut.kind # "none" /\ treeOut.hist.computed /\ treeOut.hist.quiet) =>
        Returned(treeOut) = treeOut.hist.prev

\* C27, amended: the same for a tree of more than three leaves
C27_UnmarkedChangeUnseenAboveThree ==
    (treeOut.kind # "none" /\ treeOut.hist.computed /\ treeOut.hist.quiet
       /\ tree.leavesCount > 3) =>
        Returned(treeOut) = treeOut.hist.prev

\* a ComputeRoot on a tree of more than three leaves, one of them changed
\* and not marked since the last ComputeRoot: the root returned is the
\* earlier one, and not the root of the leaves as they are
C27_Witness ==
    /\ treeOut.kind = "root"
    /\ treeOut.hist.computed
    /\ treeOut.hist.quiet
    /\ treeOut.hist.unmarked # {}
    /\ tree.leavesCount > 3
    /\ treeOut.root = treeOut.hist.prev.root
    /\ treeOut.root # treeOut.scratch

\* the change is seen once the leaf is marked: a ComputeRoot with no
\* changed leaf left without its mark returns the root of the leaves as
\* they are (trees marked before their first ComputeRoot aside)
MarkedChangeSeen ==
    (treeOut.kind # "none" /\ treeOut.hist.unmarked = {}
       /\ ~treeOut.hist.earlyMark) =>
        treeOut.kind = "root" /\ treeOut.root = treeOut.scratch

\* C28: during ComputeMerkleRootRange, for every input length, leaf limit
\* and start level, the working layer never grows beyond the scratch buffer
\* of len(data) + 64 bytes taken at the start: appending a pad chunk never
\* moves it to another array, and the buffer put back into the pool at the
\* end is the one the layer worked in.
C28_LayerStaysInScratch ==
    (treeOut.kind = "range" /\ treeOut.pc \in {"loop", "done"}
       /\ ~treeOut.err) =>
        /\ treeOut.peak <= treeOut.dataLen + 64
        /\ treeOut.peak <= treeOut.poolBuffer.cap
        /\ treeOut.layer.array = "pool"
        /\ treeOut.layer.cap = treeOut.poolBuffer.cap
        /\ treeOut.pc = "done" => treeOut.put = treeOut.layer.array

\* a call that has returned after padding on two levels, the first pad
\* chunk appended to the whole data
C28_Witness ==
    /\ treeOut.kind = "range"
    /\ treeOut.pc = "done"
    /\ treeOut.put = "pool"
    /\ treeOut.pads >= 2
    /\ treeOut.peak = treeOut.dataLen + ChunkSize


\* the mutex goroutine th holds for writing while it waits for another: the
\* first lock of a CopyInto, taken before its second
HeldFor(th) ==
    IF thr[th].pc = "copyOutLocked" THEN "peerMu"
    ELSE IF thr[th].pc = "copyInLocked" THEN "mu"
    ELSE "none"
\* the mutex goroutine th waits to read-lock, which a writer holds
WaitsFor(th) ==
    IF thr[th].pc = "copyOutLocked" /\ ~CanRLock(mu) THEN "mu"
    ELSE IF thr[th].pc = "copyInLocked" /\ ~CanRLock(peerMu) THEN "peerMu"
    ELSE IF thr[th].pc = "wrote" /\ ~CanRLock(mu) THEN "mu"
    ELSE "none"

\* C29: whatever the interleaving of m.CopyInto(other), other.CopyInto(m),
\* ComputeRoot, AppendLeaf and MarkLeafAsDirty, no two goroutines each wait
\* for a mutex that the other holds
C29_NoMutualWait ==
    \A t1, t2 \in Threads :
        ~ /\ t1 # t2
          /\ WaitsFor(t1) # "none" /\ WaitsFor(t1) = HeldFor(t2)
          /\ WaitsFor(t2) # "none" /\ WaitsFor(t2) = HeldFor(t1)

\* a goroutine that waits for a mutex held by a waiting CopyInto is not at
\* the same point of a CopyInto of the same direction
CopyWaitsForRunning ==
    \A t1, t2 \in Threads :
        (t1 # t2 /\ WaitsFor(t1) # "none" /\ WaitsFor(t1) = HeldFor(t2)) =>
            thr[t1].pc # thr[t2].pc

=============================================================================
